---- MODULE Spec2Model ----
(***************************************************************************)
(* Verification model of the software-defined-retro-rom firmware (SDRR):   *)
(* the STM32F4 main_loop (chip-select mask derivation and the assembly     *)
(* serve loop of src/sdrr/src/rom_impl.c) and the ROM image round trip     *)
(* checked by the test harness (src/test/src/check-roms.c, query-roms.c),  *)
(* the boot path of main (main.c, utils.c) and check_config (rp235x.c).    *)
(***************************************************************************)
EXTENDS Integers, Sequences, FiniteSets, TLC

VARIABLES
    \* ---- main_loop (rom_impl.c, STM32F4) ----
    rom,             \* the sdrr_rom_info_t handed to main_loop: rom_type, cs1..3_state
    logging,         \* build switch MAIN_LOOP_LOGGING
    phase,           \* position in main/main_loop: "off", "entry", "asm", "c_log", "returned"
    pc,              \* index of the next instruction of the asm block (phase = "asm")
    cs_check_mask,   \* R_CS_CHECK_MASK (r9)
    cs_invert_mask,  \* R_CS_INVERT_MASK (r8)
    R_ADDR_CS,       \* r0
    R_DATA,          \* r1
    R_CS_TEST,       \* r10
    zflag,           \* the Z condition flag
    GPIOA_MODER,     \* mode register of the data port
    GPIOA_ODR,       \* low byte of the output data register of the data port
    GPIOC_IDR,       \* the address/CS input register as last driven by the host
    \* ---- history of the serve loop (not program state) ----
    hist,
    \* ---- validate_all_rom_sets (check-roms.c) ----
    tst,
    \* ---- selection test of a multi-ROM set ----
    msel,
    \* ---- check_config (rp235x.c) ----
    cfg,
    \* ---- main up to the call of main_loop (main.c, utils.c, rom_impl.c) ----
    boot,
    \* ---- an exception handler (vector.c) ----
    exc,
    \* ---- main_loop (rom_impl.c, STM32F1) ----
    f1

loopVars == <<rom, logging, phase, pc, cs_check_mask, cs_invert_mask, R_ADDR_CS,
              R_DATA, R_CS_TEST, zflag, GPIOA_MODER, GPIOA_ODR, GPIOC_IDR, hist>>
auxVars == <<msel, cfg, boot, exc, f1>>
vars == <<loopVars, tst, auxVars>>

\* The parts of the firmware that are not running.
MoreOff == exc = [at |-> "off"] /\ f1 = [at |-> "off"]
AuxOff ==
    msel = [at |-> "off"] /\ cfg = [at |-> "off"] /\ boot = [at |-> "off"] /\ MoreOff

-----------------------------------------------------------------------------
(* Bit arithmetic on register values.                                      *)

\* Width of the values read from a GPIO input data register.
IDR_BITS == 16

Pow2(n) == 2 ^ n

Bit(v, i) == (v \div Pow2(i)) % 2

RECURSIVE BitOp(_, _, _, _)
\* op: 0 = AND, 1 = OR, 2 = XOR, over the low n bits.
BitOp(op, a, b, n) ==
    IF n = 0 THEN 0
    ELSE LET x == a % 2
             y == b % 2
             z == CASE op = 0 -> x * y
                    [] op = 1 -> IF x + y > 0 THEN 1 ELSE 0
                    [] OTHER  -> (x + y) % 2
         IN  z + 2 * BitOp(op, a \div 2, b \div 2, n - 1)

BitAnd(a, b) == BitOp(0, a, b, IDR_BITS)
BitOr(a, b)  == BitOp(1, a, b, IDR_BITS)
BitXor(a, b) == BitOp(2, a, b, IDR_BITS)

RECURSIVE MaskOf(_)
\* The register value with exactly the bits of the set S set.
MaskOf(S) == IF S = {} THEN 0
             ELSE LET b == CHOOSE x \in S : TRUE
                  IN  Pow2(b) + MaskOf(S \ {b})

-----------------------------------------------------------------------------
(* Configuration values.                                                   *)

ROM_TYPE_2316 == 0
ROM_TYPE_2332 == 1
ROM_TYPE_2364 == 2
\* A rom_type value the switch of main_loop does not know.
ROM_TYPE_UNKNOWN == 3

CS_ACTIVE_LOW  == "active_low"
CS_ACTIVE_HIGH == "active_high"
CS_NOT_USED    == "not_used"

CsStates == {CS_ACTIVE_LOW, CS_ACTIVE_HIGH, CS_NOT_USED}
RomTypes == {ROM_TYPE_2316, ROM_TYPE_2332, ROM_TYPE_2364, ROM_TYPE_UNKNOWN}

\* Chip-select pins of port C on hardware revisions D and E.
PIN_CS_INT  == 10
PIN_CS2_INT == 12
PIN_CS3_INT == 9

DATA_OUTPUT_MASK == 671110485   \* 0x28005555
DATA_INPUT_MASK  == 671088640   \* 0x28000000

\* The same masks in a build with the clock output on PA8 (MCO).
DATA_OUTPUT_MASK_MCO == 671241557   \* 0x28025555
DATA_INPUT_MASK_MCO  == 671219712   \* 0x28020000

-----------------------------------------------------------------------------
(* main_loop: the switch that derives the chip-select masks.               *)

\* A faulty variant whose 2332 checks the 2316's CS2 pin instead of the shared CS3 pin.
MainLoopCheckMask_WrongPin(r) ==
    CASE r.rom_type = ROM_TYPE_2316 ->
            Pow2(PIN_CS_INT) + Pow2(PIN_CS2_INT) + Pow2(PIN_CS3_INT)
      [] r.rom_type = ROM_TYPE_2332 ->
            Pow2(PIN_CS_INT) + Pow2(PIN_CS2_INT)
      [] OTHER -> Pow2(PIN_CS_INT)

\* A faulty variant whose default case has no fallthrough into the 2364 case.
MainLoopCheckMask_NoFallthrough(r) ==
    CASE r.rom_type = ROM_TYPE_2316 ->
            Pow2(PIN_CS_INT) + Pow2(PIN_CS2_INT) + Pow2(PIN_CS3_INT)
      [] r.rom_type = ROM_TYPE_2332 ->
            Pow2(PIN_CS_INT) + Pow2(PIN_CS3_INT)
      [] r.rom_type = ROM_TYPE_2364 -> Pow2(PIN_CS_INT)
      [] OTHER -> 0

MainLoopCheckMask(r) ==
    CASE r.rom_type = ROM_TYPE_2316 ->
            Pow2(PIN_CS_INT) + Pow2(PIN_CS2_INT) + Pow2(PIN_CS3_INT)
      [] r.rom_type = ROM_TYPE_2332 ->
            Pow2(PIN_CS_INT) + Pow2(PIN_CS3_INT)
      [] OTHER -> Pow2(PIN_CS_INT)

\* if (state == CS_ACTIVE_LOW) { } else { cs_invert_mask |= (1 << pin); }
InvertBit(state, pin) == IF state = CS_ACTIVE_LOW THEN 0 ELSE Pow2(pin)

MainLoopInvertMask(r) ==
    CASE r.rom_type = ROM_TYPE_2316 ->
            BitOr(BitOr(InvertBit(r.cs1_state, PIN_CS_INT),
                        InvertBit(r.cs2_state, PIN_CS2_INT)),
                  InvertBit(r.cs3_state, PIN_CS3_INT))
      [] r.rom_type = ROM_TYPE_2332 ->
            BitOr(InvertBit(r.cs1_state, PIN_CS_INT),
                  InvertBit(r.cs2_state, PIN_CS3_INT))
      [] OTHER -> InvertBit(r.cs1_state, PIN_CS_INT)

\* TEST_CS: eor R_CS_TEST, R_ADDR_CS, R_CS_INVERT_MASK ; tst R_CS_TEST, R_CS_CHECK_MASK
TestCsEor(addr_cs, invert) == BitXor(addr_cs, invert)
TestCsZ(cs_test, check) == BitAnd(cs_test, check) = 0

-----------------------------------------------------------------------------
(* The ROM images and the pre-mangled tables (image preparation).          *)

\* Size in bytes of an original ROM image of each type.
get_expected_rom_size(rom_type) ==
    CASE rom_type = ROM_TYPE_2316 -> 2048
      [] rom_type = ROM_TYPE_2332 -> 4096
      [] rom_type = ROM_TYPE_2364 -> 8192
      [] OTHER -> 0

\* Byte a of the original image file of ROM number f (loaded_roms[f].data[a]).
\* The content is arbitrary; this one changes with every address bit.
OriginalByte(f, a) == ((a % 256) + 3 * (a \div 256) + 85 * f + 1) % 256

\* Pin map of hardware revisions D/E: port-C pin of logical address line Ai.
AddrPin == <<5, 4, 6, 7, 3, 2, 1, 0, 8, 13, 11, 12, 9>>
NUM_ADDR_LINES == 13
PIN_X1 == 14
PIN_X2 == 15
\* Filler byte of table entries no ROM of a multi-ROM set answers.
FILLER == 170

RECURSIVE LogicalAddressOfFrom(_, _)
LogicalAddressOfFrom(raw, i) ==
    IF i > NUM_ADDR_LINES THEN 0
    ELSE Bit(raw, AddrPin[i]) * Pow2(i - 1) + LogicalAddressOfFrom(raw, i + 1)

\* The logical address a raw value of the address/CS register stands for.
LogicalAddressOf(raw) == LogicalAddressOfFrom(raw, 1)

RECURSIVE ReverseBits(_, _)
ReverseBits(b, n) ==
    IF n = 0 THEN 0
    ELSE (b % 2) * Pow2(n - 1) + ReverseBits(b \div 2, n - 1)

\* Data line Di is driven by port-A pin 7 - i.
remap_byte(b) == ReverseBits(b, 8)

\* The ROMs of a set that a raw register value selects (multi-ROM sets: ROM 0
\* by CS1, ROM 1 by X1, ROM 2 by X2, all of the set's shared polarity).
SelectLine == <<PIN_CS_INT, PIN_X1, PIN_X2>>
ActiveLevel(state) == IF state = CS_ACTIVE_LOW THEN 0 ELSE 1
SelectedRoms(set, raw) ==
    {k \in 1..set.rom_count :
        Bit(raw, SelectLine[k]) = ActiveLevel(set.multi_rom_cs1_state)}

\* rom_set[..].data[raw]: the table the generator builds for a set.
\* set.roms[k] = [rom_type, file]; a single-ROM table mirrors the image over
\* the chip-select positions, a multi-ROM table holds each ROM where only its
\* own select line is active.
SetTableByte(set, raw) ==
    IF set.rom_count = 1
    THEN LET r == set.roms[1]
         IN  remap_byte(OriginalByte(r.file,
                 LogicalAddressOf(raw) % get_expected_rom_size(r.rom_type)))
    ELSE LET sel == SelectedRoms(set, raw)
         IN  IF Cardinality(sel) = 1
             THEN LET k == CHOOSE x \in sel : TRUE
                      r == set.roms[k]
                  IN  remap_byte(OriginalByte(r.file,
                          LogicalAddressOf(raw) % get_expected_rom_size(r.rom_type)))
             ELSE FILLER

\* Size of a set's table: 16KB for one ROM, 64KB for several.
SetTableSize(set) == IF set.rom_count = 1 THEN 16384 ELSE 65536

-----------------------------------------------------------------------------
(* The test harness: query-roms.c                                          *)

lookup_rom_byte(sets, set_idx, mangled_addr) == SetTableByte(sets[set_idx], mangled_addr)

\* One "if (logical_addr & (1 << from)) mangled |= (1 << to)" line.
MapBit(v, from, to) == Bit(v, from) * Pow2(to)

\* A faulty variant that sends A9 to PC12, the pin of A11.
create_mangled_address_A9Wrong(logical_addr, cs1, x1, x2) ==
      (IF cs1 # 0 THEN Pow2(10) ELSE 0)
    + (IF x1 # 0 THEN Pow2(14) ELSE 0)
    + (IF x2 # 0 THEN Pow2(15) ELSE 0)
    + BitOr(MapBit(logical_addr, 9, 12),
            MapBit(logical_addr, 0, 5) + MapBit(logical_addr, 1, 4)
          + MapBit(logical_addr, 2, 6) + MapBit(logical_addr, 3, 7)
          + MapBit(logical_addr, 4, 3) + MapBit(logical_addr, 5, 2)
          + MapBit(logical_addr, 6, 1) + MapBit(logical_addr, 7, 0)
          + MapBit(logical_addr, 8, 8)
          + MapBit(logical_addr, 10, 11) + MapBit(logical_addr, 11, 12)
          + MapBit(logical_addr, 12, 9))

\* A faulty variant that sends A12 to PC10, the pin of CS1.
create_mangled_address_A12OnCs1(logical_addr, cs1, x1, x2) ==
      (IF x1 # 0 THEN Pow2(14) ELSE 0)
    + (IF x2 # 0 THEN Pow2(15) ELSE 0)
    + BitOr(IF cs1 # 0 THEN Pow2(10) ELSE 0, MapBit(logical_addr, 12, 10))
    + MapBit(logical_addr, 0, 5) + MapBit(logical_addr, 1, 4)
    + MapBit(logical_addr, 2, 6) + MapBit(logical_addr, 3, 7)
    + MapBit(logical_addr, 4, 3) + MapBit(logical_addr, 5, 2)
    + MapBit(logical_addr, 6, 1) + MapBit(logical_addr, 7, 0)
    + MapBit(logical_addr, 8, 8) + MapBit(logical_addr, 9, 13)
    + MapBit(logical_addr, 10, 11) + MapBit(logical_addr, 11, 12)

\* A faulty variant that leaves the X2 bit out of the index.
create_mangled_address_NoX2(logical_addr, cs1, x1, x2) ==
      (IF cs1 # 0 THEN Pow2(10) ELSE 0)
    + (IF x1 # 0 THEN Pow2(14) ELSE 0)
    + MapBit(logical_addr, 0, 5) + MapBit(logical_addr, 1, 4)
    + MapBit(logical_addr, 2, 6) + MapBit(logical_addr, 3, 7)
    + MapBit(logical_addr, 4, 3) + MapBit(logical_addr, 5, 2)
    + MapBit(logical_addr, 6, 1) + MapBit(logical_addr, 7, 0)
    + MapBit(logical_addr, 8, 8) + MapBit(logical_addr, 9, 13)
    + MapBit(logical_addr, 10, 11) + MapBit(logical_addr, 11, 12)
    + MapBit(logical_addr, 12, 9)

\* The bits ORed in are pairwise distinct, so the OR is a sum.
create_mangled_address(logical_addr, cs1, x1, x2) ==
      (IF cs1 # 0 THEN Pow2(10) ELSE 0)
    + (IF x1 # 0 THEN Pow2(14) ELSE 0)
    + (IF x2 # 0 THEN Pow2(15) ELSE 0)
    + MapBit(logical_addr, 0, 5) + MapBit(logical_addr, 1, 4)
    + MapBit(logical_addr, 2, 6) + MapBit(logical_addr, 3, 7)
    + MapBit(logical_addr, 4, 3) + MapBit(logical_addr, 5, 2)
    + MapBit(logical_addr, 6, 1) + MapBit(logical_addr, 7, 0)
    + MapBit(logical_addr, 8, 8) + MapBit(logical_addr, 9, 13)
    + MapBit(logical_addr, 10, 11) + MapBit(logical_addr, 11, 12)
    + MapBit(logical_addr, 12, 9)

demangle_byte(mangled_byte) ==
      MapBit(mangled_byte, 0, 7) + MapBit(mangled_byte, 1, 6)
    + MapBit(mangled_byte, 2, 5) + MapBit(mangled_byte, 3, 4)
    + MapBit(mangled_byte, 4, 3) + MapBit(mangled_byte, 5, 2)
    + MapBit(mangled_byte, 6, 1) + MapBit(mangled_byte, 7, 0)

-----------------------------------------------------------------------------
(* The test harness: validate_all_rom_sets of check-roms.c                 *)

SingleSet(t, f) ==
    [rom_count |-> 1, multi_rom_cs1_state |-> CS_ACTIVE_LOW,
     roms |-> <<[rom_type |-> t, file |-> f, cs1 |-> 0]>>]

\* A multi-ROM set of the ROM types ts (files numbered from f0) whose select
\* lines all have polarity st; configs[..].cs1 is 0 for active low.
MultiSet(ts, f0, st) ==
    [rom_count |-> Len(ts), multi_rom_cs1_state |-> st,
     roms |-> [k \in 1..Len(ts) |->
                 [rom_type |-> ts[k], file |-> f0 + k - 1,
                  cs1 |-> IF st = CS_ACTIVE_LOW THEN 0 ELSE 1]]]

\* The firmware builds the harness is run against: each is a rom_set array.
Builds == <<
    <<SingleSet(ROM_TYPE_2364, 0)>>,
    <<SingleSet(ROM_TYPE_2332, 0)>>,
    <<SingleSet(ROM_TYPE_2316, 0)>>,
    <<MultiSet(<<ROM_TYPE_2364, ROM_TYPE_2332>>, 0, CS_ACTIVE_LOW)>>,
    <<MultiSet(<<ROM_TYPE_2332, ROM_TYPE_2316>>, 0, CS_ACTIVE_HIGH)>>,
    <<MultiSet(<<ROM_TYPE_2316, ROM_TYPE_2364, ROM_TYPE_2332>>, 0, CS_ACTIVE_LOW)>>,
    <<MultiSet(<<ROM_TYPE_2316, ROM_TYPE_2316, ROM_TYPE_2332>>, 0, CS_ACTIVE_HIGH)>>,
    <<SingleSet(ROM_TYPE_2316, 0),
      MultiSet(<<ROM_TYPE_2316, ROM_TYPE_2316>>, 1, CS_ACTIVE_HIGH)>> >>

rom_set == Builds[tst.build]
sdrr_rom_set_count == Len(rom_set)

RECURSIVE FlattenRoms(_, _)
FlattenRoms(sets, i) ==
    IF i > Len(sets) THEN <<>> ELSE sets[i].roms \o FlattenRoms(sets, i + 1)

\* loaded_roms / configs: one entry per ROM of the build, in set order.
loaded_roms == FlattenRoms(rom_set, 1)
LoadedSize(f) == get_expected_rom_size(loaded_roms[f + 1].rom_type)
LoadedByte(f, a) == OriginalByte(loaded_roms[f + 1].file, a)

TstIdle == [at |-> "off", build |-> 1, set_idx |-> 0, rom_idx |-> 0,
            overall_rom_idx |-> 0, logical_addr |-> 0, cs1 |-> 0, x1 |-> 0,
            x2 |-> 0, mangled_addr |-> 0, demangled_byte |-> 0,
            expected_byte |-> 0, errors |-> 0, rom_errors |-> 0,
            total_errors |-> 0, rc |-> 0]

TstInit == tst \in {[TstIdle EXCEPT !.at = "start", !.build = b] :
                        b \in 1..Len(Builds)}

\* int total_errors = 0; overall_rom_idx = 0; for (set_idx = 0; ...
ValidateStart ==
    /\ tst.at = "start"
    /\ tst' = [tst EXCEPT !.at = "set", !.set_idx = 0, !.overall_rom_idx = 0,
                          !.total_errors = 0]
    /\ UNCHANGED <<loopVars, auxVars>>

\* Head of the set loop: leave it, or start the set's sweep.
SetBegin ==
    /\ tst.at = "set"
    /\ tst.set_idx < sdrr_rom_set_count
    /\ tst' = [tst EXCEPT
                 !.errors = 0, !.rom_idx = 0, !.logical_addr = 0,
                 !.at = IF rom_set[tst.set_idx + 1].rom_count = 1
                        THEN "single" ELSE "multi_rom"]
    /\ UNCHANGED <<loopVars, auxVars>>

\* One pass of "for (logical_addr = 0; logical_addr < 16384; logical_addr++)".
SingleRomStep ==
    /\ tst.at = "single"
    /\ tst.logical_addr < 16384
    /\ LET mangled == create_mangled_address(tst.logical_addr, 0, 0, 0)
           got == demangle_byte(lookup_rom_byte(rom_set, tst.set_idx + 1, mangled))
           original_addr == tst.logical_addr % LoadedSize(tst.overall_rom_idx)
           want == LoadedByte(tst.overall_rom_idx, original_addr)
       IN  tst' = [tst EXCEPT
                     !.mangled_addr = mangled, !.demangled_byte = got,
                     !.expected_byte = want,
                     !.errors = IF got # want THEN @ + 1 ELSE @,
                     !.logical_addr = @ + 1]
    /\ UNCHANGED <<loopVars, auxVars>>

SingleRomEnd ==
    /\ tst.at = "single"
    /\ tst.logical_addr = 16384
    /\ tst' = [tst EXCEPT !.overall_rom_idx = @ + 1, !.at = "set_end"]
    /\ UNCHANGED <<loopVars, auxVars>>

\* Head of the ROM loop of a multi-ROM set: the select levels of ROM rom_idx.
MultiRomBegin ==
    /\ tst.at = "multi_rom"
    /\ tst.rom_idx < rom_set[tst.set_idx + 1].rom_count
    /\ LET act == IF loaded_roms[tst.overall_rom_idx + 1].cs1 = 0 THEN 0 ELSE 1
           off == IF act = 0 THEN 1 ELSE 0
       IN  tst' = [tst EXCEPT
                     !.cs1 = IF tst.rom_idx = 0 THEN act ELSE off,
                     !.x1  = IF tst.rom_idx = 1 THEN act ELSE off,
                     !.x2  = IF tst.rom_idx \in {0, 1} THEN off ELSE act,
                     !.rom_errors = 0, !.logical_addr = 0, !.at = "multi"]
    /\ UNCHANGED <<loopVars, auxVars>>

\* One pass of "for (logical_addr = 0; logical_addr < loaded_roms[..].size; ...".
MultiRomStep ==
    /\ tst.at = "multi"
    /\ tst.logical_addr < LoadedSize(tst.overall_rom_idx)
    /\ LET mangled == create_mangled_address(tst.logical_addr, tst.cs1, tst.x1, tst.x2)
           got == demangle_byte(lookup_rom_byte(rom_set, tst.set_idx + 1, mangled))
           want == LoadedByte(tst.overall_rom_idx, tst.logical_addr)
       IN  tst' = [tst EXCEPT
                     !.mangled_addr = mangled, !.demangled_byte = got,
                     !.expected_byte = want,
                     !.rom_errors = IF got # want THEN @ + 1 ELSE @,
                     !.logical_addr = @ + 1]
    /\ UNCHANGED <<loopVars, auxVars>>

\* errors += rom_errors; overall_rom_idx++;
MultiRomEnd ==
    /\ tst.at = "multi"
    /\ tst.logical_addr = LoadedSize(tst.overall_rom_idx)
    /\ tst' = [tst EXCEPT !.errors = @ + tst.rom_errors,
                          !.overall_rom_idx = @ + 1, !.rom_idx = @ + 1,
                          !.at = "multi_rom"]
    /\ UNCHANGED <<loopVars, auxVars>>

MultiSetEnd ==
    /\ tst.at = "multi_rom"
    /\ tst.rom_idx = rom_set[tst.set_idx + 1].rom_count
    /\ tst' = [tst EXCEPT !.at = "set_end"]
    /\ UNCHANGED <<loopVars, auxVars>>

\* total_errors += errors; next set.
SetEnd ==
    /\ tst.at = "set_end"
    /\ tst' = [tst EXCEPT !.total_errors = @ + tst.errors,
                          !.set_idx = @ + 1, !.at = "set"]
    /\ UNCHANGED <<loopVars, auxVars>>

\* return (total_errors > 0) ? -1 : 0;
ValidateReturn ==
    /\ tst.at = "set"
    /\ tst.set_idx = sdrr_rom_set_count
    /\ tst' = [tst EXCEPT !.rc = IF tst.total_errors > 0 THEN -1 ELSE 0,
                          !.at = "done"]
    /\ UNCHANGED <<loopVars, auxVars>>

ValidateStep ==
    \/ ValidateStart \/ SetBegin \/ SingleRomStep \/ SingleRomEnd
    \/ MultiRomBegin \/ MultiRomStep \/ MultiRomEnd \/ MultiSetEnd
    \/ SetEnd \/ ValidateReturn

-----------------------------------------------------------------------------
(* main_loop (STM32F4): the assembly serve loop as a program.              *)

Ins(op, line) == [op |-> op, arg |-> "", line |-> line]
Jmp(op, target, line) == [op |-> op, arg |-> target, line |-> line]
Lbl(name, line) == [op |-> "LABEL", arg |-> name, line |-> line]

\* A faulty variant that branches into the serve block.
Prologue_ToServe == << Ins("LOAD_CONSTS", 659), Jmp("B", "CS_ACTIVE", 679) >>

\* movw/movt of the register constants, then "b loop".
Prologue == << Ins("LOAD_CONSTS", 659), Jmp("B", "LOOP", 679) >>

\* A faulty variant that looks the byte up before it sets the pins to outputs.
ServeBlock_LookupFirst ==
    << Lbl("CS_ACTIVE", 682), Ins("LOAD_FROM_RAM", 689), Ins("SET_DATA_OUT", 683),
       Lbl("CS_ACTIVE_DATA_ACTIVE", 688),
       Ins("LOAD_ADDR_CS", 690), Ins("TEST_CS", 691),
       Jmp("BNE", "CS_INACTIVE_BYTE", 692),
       Lbl("CS_ACTIVE_DATA_ACTIVE_BYTE", 693),
       Ins("STORE_TO_DATA", 694), Ins("LOAD_ADDR_CS", 695), Ins("TEST_CS", 696),
       Jmp("BNE", "CS_INACTIVE_NO_BYTE", 697),
       Ins("LOAD_FROM_RAM", 698), Ins("LOAD_ADDR_CS", 699), Ins("TEST_CS", 700),
       Jmp("BEQ", "CS_ACTIVE_DATA_ACTIVE_BYTE", 701) >>

\* A faulty variant without the lookup between the second and the third test.
ServeBlock_NoSecondLookup ==
    << Lbl("CS_ACTIVE", 682), Ins("SET_DATA_OUT", 683),
       Lbl("CS_ACTIVE_DATA_ACTIVE", 688),
       Ins("LOAD_FROM_RAM", 689), Ins("LOAD_ADDR_CS", 690), Ins("TEST_CS", 691),
       Jmp("BNE", "CS_INACTIVE_BYTE", 692),
       Lbl("CS_ACTIVE_DATA_ACTIVE_BYTE", 693),
       Ins("STORE_TO_DATA", 694), Ins("LOAD_ADDR_CS", 695), Ins("TEST_CS", 696),
       Jmp("BNE", "CS_INACTIVE_NO_BYTE", 697),
       Ins("LOAD_ADDR_CS", 699), Ins("TEST_CS", 700),
       Jmp("BEQ", "CS_ACTIVE_DATA_ACTIVE_BYTE", 701) >>

\* A faulty variant without the branch after the second test.
ServeBlock_NoSecondBne ==
    << Lbl("CS_ACTIVE", 682), Ins("SET_DATA_OUT", 683),
       Lbl("CS_ACTIVE_DATA_ACTIVE", 688),
       Ins("LOAD_FROM_RAM", 689), Ins("LOAD_ADDR_CS", 690), Ins("TEST_CS", 691),
       Jmp("BNE", "CS_INACTIVE_BYTE", 692),
       Lbl("CS_ACTIVE_DATA_ACTIVE_BYTE", 693),
       Ins("STORE_TO_DATA", 694), Ins("LOAD_ADDR_CS", 695), Ins("TEST_CS", 696),
       Ins("LOAD_FROM_RAM", 698), Ins("LOAD_ADDR_CS", 699), Ins("TEST_CS", 700),
       Jmp("BEQ", "CS_ACTIVE_DATA_ACTIVE_BYTE", 701) >>

\* A faulty variant without the sample and test that follow the store.
ServeBlock_NoTestAfterStore ==
    << Lbl("CS_ACTIVE", 682), Ins("SET_DATA_OUT", 683),
       Lbl("CS_ACTIVE_DATA_ACTIVE", 688),
       Ins("LOAD_FROM_RAM", 689), Ins("LOAD_ADDR_CS", 690), Ins("TEST_CS", 691),
       Jmp("BNE", "CS_INACTIVE_BYTE", 692),
       Lbl("CS_ACTIVE_DATA_ACTIVE_BYTE", 693),
       Ins("STORE_TO_DATA", 694),
       Ins("LOAD_FROM_RAM", 698), Ins("LOAD_ADDR_CS", 699), Ins("TEST_CS", 700),
       Jmp("BEQ", "CS_ACTIVE_DATA_ACTIVE_BYTE", 701) >>

\* CS_ACTIVE .. the fall through into CS_INACTIVE_BYTE.
ServeBlock ==
    << Lbl("CS_ACTIVE", 682), Ins("SET_DATA_OUT", 683),
       Lbl("CS_ACTIVE_DATA_ACTIVE", 688),
       Ins("LOAD_FROM_RAM", 689), Ins("LOAD_ADDR_CS", 690), Ins("TEST_CS", 691),
       Jmp("BNE", "CS_INACTIVE_BYTE", 692),
       Lbl("CS_ACTIVE_DATA_ACTIVE_BYTE", 693),
       Ins("STORE_TO_DATA", 694), Ins("LOAD_ADDR_CS", 695), Ins("TEST_CS", 696),
       Jmp("BNE", "CS_INACTIVE_NO_BYTE", 697),
       Ins("LOAD_FROM_RAM", 698), Ins("LOAD_ADDR_CS", 699), Ins("TEST_CS", 700),
       Jmp("BEQ", "CS_ACTIVE_DATA_ACTIVE_BYTE", 701) >>

\* A faulty variant that stores the byte without releasing the pins.
InactiveByteBlock_NoSetIn(withLogging) ==
       << Lbl("CS_INACTIVE_BYTE", 722), Ins("STORE_TO_DATA", 724) >>
    \o (IF withLogging THEN << Jmp("B", "END_LOOP", 726) >> ELSE << >>)

\* CS_INACTIVE_BYTE: release the pins, then store the byte in hand.
InactiveByteBlock(withLogging) ==
       << Lbl("CS_INACTIVE_BYTE", 722), Ins("SET_DATA_IN", 723),
          Ins("STORE_TO_DATA", 724) >>
    \o (IF withLogging THEN << Jmp("B", "END_LOOP", 726) >> ELSE << >>)

\* A faulty variant that forgets to release the pins.
InactiveNoByteBlock_NoSetIn(withLogging) ==
       << Lbl("CS_INACTIVE_NO_BYTE", 745) >>
    \o (IF withLogging THEN << Jmp("B", "END_LOOP", 748) >> ELSE << >>)

\* CS_INACTIVE_NO_BYTE: release the pins.
InactiveNoByteBlock(withLogging) ==
       << Lbl("CS_INACTIVE_NO_BYTE", 745), Ins("SET_DATA_IN", 746) >>
    \o (IF withLogging THEN << Jmp("B", "END_LOOP", 748) >> ELSE << >>)

\* A faulty variant whose closing "b loop" is missing.
PollBlock_NoBranch(l, last) ==
    << Ins("LOAD_ADDR_CS", l), Ins("TEST_CS", l + 1), Jmp("BEQ", "CS_ACTIVE", l + 2),
       Ins("LOAD_FROM_RAM", l + 3), Ins("LOAD_ADDR_CS", l + 4),
       Ins("STORE_TO_DATA", l + 5), Ins("TEST_CS", l + 6),
       Jmp("BEQ", "CS_ACTIVE", l + 7) >>

\* The idle polling sequence, written twice in the source (LOOP and its
\* copy): first line l, closing branch on line last.
PollBlock(l, last) ==
    << Ins("LOAD_ADDR_CS", l), Ins("TEST_CS", l + 1), Jmp("BEQ", "CS_ACTIVE", l + 2),
       Ins("LOAD_FROM_RAM", l + 3), Ins("LOAD_ADDR_CS", l + 4),
       Ins("STORE_TO_DATA", l + 5), Ins("TEST_CS", l + 6),
       Jmp("BEQ", "CS_ACTIVE", l + 7), Jmp("B", "LOOP", last) >>

\* MAIN_LOOP_LOGGING: END_LOOP hands r0 and r1 to the C code.
Epilogue(withLogging) ==
    IF withLogging THEN << Lbl("END_LOOP", 767), Ins("MOV_OUT", 768) >> ELSE << >>

\* The instructions of the __asm block, in source order.
Program(withLogging) ==
       Prologue
    \o ServeBlock
    \o InactiveByteBlock(withLogging)
    \o << Lbl("LOOP", 731) >> \o PollBlock(732, 742)
    \o InactiveNoByteBlock(withLogging)
    \o PollBlock(753, 764)
    \o Epilogue(withLogging)

ProgPlain == Program(FALSE)
ProgLogging == Program(TRUE)
Prog == IF logging THEN ProgLogging ELSE ProgPlain

LabelIndex(name) ==
    CHOOSE i \in 1..Len(Prog) : Prog[i].op = "LABEL" /\ Prog[i].arg = name

RECURSIVE SkipLabels(_)
\* The first instruction at or after position i; Len(Prog) + 1 past the end.
SkipLabels(i) ==
    IF i <= Len(Prog) /\ Prog[i].op = "LABEL" THEN SkipLabels(i + 1) ELSE i

AtOp(op) == phase = "asm" /\ pc <= Len(Prog) /\ Prog[pc].op = op

\* Control passes to position i: into the block, or off its end, where the
\* logging build goes on to its C epilogue and the plain build returns.
GoTo(i) ==
    LET j == SkipLabels(i)
    IN  /\ pc' = j
        /\ phase' = IF j <= Len(Prog) THEN "asm"
                    ELSE IF logging THEN "c_log" ELSE "returned"

FallThrough == GoTo(pc + 1)
Branch == GoTo(LabelIndex(Prog[pc].arg))

-----------------------------------------------------------------------------
(* main_loop (STM32F4): state, inputs and steps.                           *)

\* Port-C pins the host is seen to drive in the serve-loop runs: A0 (PC5), PC9
\* (A12, CS2 of a 2332, CS3 of a 2316) and PC10 (CS1); all other pins read 0.
BusBits == {5, PIN_CS3_INT, PIN_CS_INT}
BusValues == {MaskOf(S) : S \in SUBSET BusBits}

\* Values an uninitialised byte register may hold.
UndefBytes == {0, 255}

\* Data stores counted since the address/CS register last changed (cap).
MaxRunStores == 3

\* Sample-and-test pairs counted since the last lookup or store (cap).
MaxPairs == 3

\* rom->data[idx] (or its RAM copy): the single-ROM table of this ROM's type.
RomData(r, idx) ==
    SetTableByte(SingleSet(IF r.rom_type = ROM_TYPE_UNKNOWN
                           THEN ROM_TYPE_2364 ELSE r.rom_type, 0), idx)

\* gpio_init: GPIOA_MODER with PA13/14 (SWD) and PA8 (MCO) as alternate functions.
GpioInitModer(swd_enabled, mco_enabled) ==
    (IF swd_enabled THEN 671088640 ELSE 0) + (IF mco_enabled THEN 131072 ELSE 0)

\* GPIOA_MODER &= ~0x00FCFFFF
ClearDataModer(m) == (m \div Pow2(24)) * Pow2(24) + ((m \div Pow2(16)) % 4) * Pow2(16)

\* Mode fields of PA0-PA7: 0x5555 = all outputs, 0 = all inputs.
DataPinMode == GPIOA_MODER % Pow2(16)
DataPinsOutput == DataPinMode = 21845
DataPinsInput  == DataPinMode = 0

HistInit == [sw |-> "IDLE", pending |-> "none", hops |-> 0, r0_active |-> FALSE,
             r1_idx |-> -1, r1_src |-> "pre", odr_idx |-> -1, odr_src |-> "pre",
             stored |-> FALSE, run_val |-> -1, run_stores |-> 0,
             seen_active |-> FALSE, lk_fresh |-> FALSE, st_fresh |-> FALSE,
             lk_serving |-> FALSE, lk_pairs |-> 0, lk_read |-> -1,
             st_serving |-> FALSE, st_pairs |-> 0]

LoopOff ==
    /\ rom = [rom_type |-> ROM_TYPE_2364, cs1_state |-> CS_ACTIVE_LOW,
              cs2_state |-> CS_NOT_USED, cs3_state |-> CS_NOT_USED]
    /\ logging = FALSE /\ phase = "off" /\ pc = 0
    /\ cs_check_mask = 0 /\ cs_invert_mask = 0
    /\ R_ADDR_CS = 0 /\ R_DATA = 0 /\ R_CS_TEST = 0 /\ zflag = FALSE
    /\ GPIOA_MODER = 0 /\ GPIOA_ODR = 0 /\ GPIOC_IDR = 0
    /\ hist = HistInit

\* The switch on rom->rom_type and the GPIO prologue of main_loop.
MainLoopEntry ==
    /\ phase = "entry"
    /\ cs_check_mask' = MainLoopCheckMask(rom)
    /\ cs_invert_mask' = MainLoopInvertMask(rom)
    /\ GPIOA_MODER' = ClearDataModer(GPIOA_MODER)
    /\ pc' = 1 /\ phase' = "asm"
    /\ UNCHANGED <<rom, logging, R_ADDR_CS, R_DATA, R_CS_TEST, zflag, GPIOA_ODR,
                   GPIOC_IDR, hist, tst, auxVars>>

\* movw/movt of the GPIO addresses and mode masks.
LoadConsts ==
    /\ AtOp("LOAD_CONSTS")
    /\ FallThrough
    /\ UNCHANGED <<rom, logging, cs_check_mask, cs_invert_mask, R_ADDR_CS, R_DATA,
                   R_CS_TEST, zflag, GPIOA_MODER, GPIOA_ODR, GPIOC_IDR, hist, tst, auxVars>>

\* LOAD_ADDR_CS: ldr r0, [GPIOC_IDR]; the host drives the port with any
\* value of the set S.
LoadAddrCsFrom(S) ==
    /\ AtOp("LOAD_ADDR_CS")
    /\ \E v \in S :
        /\ GPIOC_IDR' = v
        /\ R_ADDR_CS' = v
        /\ hist' = [hist EXCEPT
                      !.r0_active = FALSE,
                      !.lk_fresh = TRUE,
                      !.st_fresh = TRUE,
                      !.run_val = v,
                      !.run_stores = IF v = hist.run_val THEN @ ELSE 0]
    /\ FallThrough
    /\ UNCHANGED <<rom, logging, cs_check_mask, cs_invert_mask, R_DATA, R_CS_TEST,
                   zflag, GPIOA_MODER, GPIOA_ODR, tst, auxVars>>

LoadAddrCs == LoadAddrCsFrom(BusValues)

\* TEST_CS: eor r10, r0, r8 ; tst r10, r9
TestCs ==
    /\ AtOp("TEST_CS")
    /\ LET t == TestCsEor(R_ADDR_CS, cs_invert_mask)
           z == TestCsZ(t, cs_check_mask)
           rise == hist.sw = "IDLE" /\ z
           fall == hist.sw = "SERVING" /\ ~z
       IN  /\ R_CS_TEST' = t
           /\ zflag' = z
           /\ hist' = [hist EXCEPT
                         !.seen_active = @ \/ z,
                         !.lk_fresh = FALSE,
                         !.st_fresh = FALSE,
                         !.lk_serving = @ /\ ~fall,
                         !.st_serving = @ /\ ~fall,
                         !.lk_pairs = IF hist.lk_fresh /\ @ < MaxPairs THEN @ + 1 ELSE @,
                         !.st_pairs = IF hist.st_fresh /\ @ < MaxPairs THEN @ + 1 ELSE @,
                         !.r0_active = z,
                         !.sw = IF z THEN "SERVING" ELSE "IDLE",
                         !.pending = IF rise THEN "out" ELSE IF fall THEN "in" ELSE @,
                         !.hops = IF rise \/ fall THEN 0 ELSE @]
    /\ FallThrough
    /\ UNCHANGED <<rom, logging, cs_check_mask, cs_invert_mask, R_ADDR_CS, R_DATA,
                   GPIOA_MODER, GPIOA_ODR, GPIOC_IDR, tst, auxVars>>

\* A faulty variant that clears the chip-select bits of the index.
LookupIndex_CsMasked(r0) == r0 - BitAnd(r0, cs_check_mask)

\* The offset register of the ldrb: r0 as it is.
LookupIndex(r0) == r0

\* The bytes a read at offset idx of the table may return: the table is
\* 16384 bytes long, and what lies behind it is not defined.
TableRead(r, idx) == IF idx < 16384 THEN {RomData(r, idx)} ELSE UndefBytes

\* LOAD_FROM_RAM: ldrb r1, [r2, r0]
LoadFromRam ==
    /\ AtOp("LOAD_FROM_RAM")
    /\ \E d \in TableRead(rom, LookupIndex(R_ADDR_CS)) : R_DATA' = d
    /\ hist' = [hist EXCEPT
                  !.lk_serving = hist.sw = "SERVING",
                  !.lk_pairs = 0,
                  !.lk_read = hist.run_val,
                  !.lk_fresh = FALSE,
                  !.r1_idx = LookupIndex(R_ADDR_CS),
                  !.r1_src = IF hist.r0_active /\ hist.sw = "SERVING"
                             THEN "cur" ELSE "inactive"]
    /\ FallThrough
    /\ UNCHANGED <<rom, logging, cs_check_mask, cs_invert_mask, R_ADDR_CS, R_CS_TEST,
                   zflag, GPIOA_MODER, GPIOA_ODR, GPIOC_IDR, tst, auxVars>>

\* STORE_TO_DATA: strb r1, [GPIOA_ODR]
StoreToData ==
    /\ AtOp("STORE_TO_DATA")
    /\ GPIOA_ODR' = R_DATA % 256
    /\ hist' = [hist EXCEPT
                  !.odr_idx = hist.r1_idx, !.odr_src = hist.r1_src,
                  !.stored = TRUE,
                  !.st_serving = hist.sw = "SERVING",
                  !.st_pairs = 0,
                  !.st_fresh = FALSE,
                  !.run_stores = IF @ < MaxRunStores THEN @ + 1 ELSE @]
    /\ FallThrough
    /\ UNCHANGED <<rom, logging, cs_check_mask, cs_invert_mask, R_ADDR_CS, R_DATA,
                   R_CS_TEST, zflag, GPIOA_MODER, GPIOC_IDR, tst, auxVars>>

\* The build has MCO defined when the firmware was configured with the clock
\* output enabled.
McoBuild == boot.at = "main_loop" /\ boot.info.mco_enabled

\* R_DATA_OUT_MASK (r3) and R_DATA_IN_MASK (r6) as loaded by the block.
DataOutMask == IF McoBuild THEN DATA_OUTPUT_MASK_MCO ELSE DATA_OUTPUT_MASK
DataInMask == IF McoBuild THEN DATA_INPUT_MASK_MCO ELSE DATA_INPUT_MASK

\* SET_DATA_OUT: str r3, [GPIOA_MODER]
SetDataOut ==
    /\ AtOp("SET_DATA_OUT")
    /\ GPIOA_MODER' = DataOutMask
    /\ hist' = [hist EXCEPT !.pending = IF @ = "out" THEN "none" ELSE @,
                            !.stored = FALSE]
    /\ FallThrough
    /\ UNCHANGED <<rom, logging, cs_check_mask, cs_invert_mask, R_ADDR_CS, R_DATA,
                   R_CS_TEST, zflag, GPIOA_ODR, GPIOC_IDR, tst, auxVars>>

\* SET_DATA_IN: str r6, [GPIOA_MODER]
SetDataIn ==
    /\ AtOp("SET_DATA_IN")
    /\ GPIOA_MODER' = DataInMask
    /\ hist' = [hist EXCEPT !.pending = IF @ = "in" THEN "none" ELSE @,
                            !.r1_src = IF @ = "cur" THEN "old" ELSE @,
                            !.odr_src = IF @ = "cur" THEN "old" ELSE @]
    /\ FallThrough
    /\ UNCHANGED <<rom, logging, cs_check_mask, cs_invert_mask, R_ADDR_CS, R_DATA,
                   R_CS_TEST, zflag, GPIOA_ODR, GPIOC_IDR, tst, auxVars>>

Hop == hist' = [hist EXCEPT !.hops = IF hist.pending # "none" THEN @ + 1 ELSE @]

\* beq: taken when the Z flag is set.
Beq ==
    /\ AtOp("BEQ")
    /\ IF zflag THEN Branch ELSE FallThrough
    /\ Hop
    /\ UNCHANGED <<rom, logging, cs_check_mask, cs_invert_mask, R_ADDR_CS, R_DATA,
                   R_CS_TEST, zflag, GPIOA_MODER, GPIOA_ODR, GPIOC_IDR, tst, auxVars>>

\* bne: taken when the Z flag is clear.
Bne ==
    /\ AtOp("BNE")
    /\ IF zflag THEN FallThrough ELSE Branch
    /\ Hop
    /\ UNCHANGED <<rom, logging, cs_check_mask, cs_invert_mask, R_ADDR_CS, R_DATA,
                   R_CS_TEST, zflag, GPIOA_MODER, GPIOA_ODR, GPIOC_IDR, tst, auxVars>>

\* b: unconditional.
BranchAlways ==
    /\ AtOp("B")
    /\ Branch
    /\ Hop
    /\ UNCHANGED <<rom, logging, cs_check_mask, cs_invert_mask, R_ADDR_CS, R_DATA,
                   R_CS_TEST, zflag, GPIOA_MODER, GPIOA_ODR, GPIOC_IDR, tst, auxVars>>

\* MAIN_LOOP_LOGGING: END_LOOP copies r0 and r1 to the C variables.
MovOut ==
    /\ AtOp("MOV_OUT")
    /\ FallThrough
    /\ UNCHANGED <<rom, logging, cs_check_mask, cs_invert_mask, R_ADDR_CS, R_DATA,
                   R_CS_TEST, zflag, GPIOA_MODER, GPIOA_ODR, GPIOC_IDR, hist, tst, auxVars>>

\* MAIN_LOOP_LOGGING: the log call, then while (1) runs the block again; the
\* C code in between leaves the scratch registers undefined.
LogAndRepeat ==
    /\ phase = "c_log"
    /\ phase' = "asm" /\ pc' = 1
    /\ \E d \in UndefBytes : R_DATA' = d
    /\ UNCHANGED <<rom, logging, cs_check_mask, cs_invert_mask, R_ADDR_CS,
                   R_CS_TEST, zflag, GPIOA_MODER, GPIOA_ODR, GPIOC_IDR, hist, tst, auxVars>>

LoopStep ==
    \/ MainLoopEntry \/ LoadConsts \/ LoadAddrCs \/ TestCs \/ LoadFromRam
    \/ StoreToData \/ SetDataOut \/ SetDataIn \/ Beq \/ Bne \/ BranchAlways
    \/ MovOut \/ LogAndRepeat

\* ROM configurations of the serve-loop runs: every type, CS1 of both
\* polarities, the other lines active low.
LoopRoms ==
    {[rom_type |-> t, cs1_state |-> s1, cs2_state |-> CS_ACTIVE_LOW,
      cs3_state |-> CS_ACTIVE_LOW] :
        t \in RomTypes, s1 \in {CS_ACTIVE_LOW, CS_ACTIVE_HIGH}}
    \cup {[rom_type |-> ROM_TYPE_2332, cs1_state |-> s1,
           cs2_state |-> CS_ACTIVE_HIGH, cs3_state |-> CS_NOT_USED] :
              s1 \in {CS_ACTIVE_LOW, CS_ACTIVE_HIGH}}

LoopInit ==
    /\ rom \in LoopRoms
    /\ logging \in BOOLEAN
    /\ phase = "entry" /\ pc = 0
    /\ cs_check_mask = 0 /\ cs_invert_mask = 0
    /\ R_ADDR_CS = 0 /\ R_CS_TEST = 0 /\ zflag = FALSE
    /\ R_DATA \in UndefBytes
    /\ GPIOA_MODER = GpioInitModer(TRUE, FALSE)
    /\ GPIOA_ODR = 0 /\ GPIOC_IDR = 0
    /\ hist = HistInit
    /\ tst = TstIdle
    /\ AuxOff

SpecLoop == LoopInit /\ [][LoopStep]_vars

-----------------------------------------------------------------------------
(* main_loop up to its first chip-select test, for every ROM configuration *)
(* and a wide range of port values.                                        *)

\* Port C bits of the probe values: the three chip-select pins and address
\* and bank-select pins around them.
ProbeBits == {0, 8, PIN_CS3_INT, PIN_CS_INT, 11, PIN_CS2_INT, PIN_X2}
ProbeValues == {MaskOf(S) : S \in SUBSET ProbeBits}

AllRoms == [rom_type : RomTypes, cs1_state : CsStates, cs2_state : CsStates,
            cs3_state : CsStates]

ProbeAddrCs == LoadAddrCsFrom(ProbeValues)

MasksStep ==
    \/ MainLoopEntry \/ LoadConsts \/ BranchAlways \/ ProbeAddrCs \/ TestCs

MasksInit ==
    /\ rom \in AllRoms
    /\ logging = FALSE
    /\ phase = "entry" /\ pc = 0
    /\ cs_check_mask = 0 /\ cs_invert_mask = 0
    /\ R_ADDR_CS = 0 /\ R_CS_TEST = 0 /\ zflag = FALSE
    /\ R_DATA = 0
    /\ GPIOA_MODER = GpioInitModer(TRUE, FALSE)
    /\ GPIOA_ODR = 0 /\ GPIOC_IDR = 0
    /\ hist = HistInit
    /\ tst = TstIdle
    /\ AuxOff

SpecMasks == MasksInit /\ [][MasksStep]_vars

-----------------------------------------------------------------------------
(* The serve loop of one ROM with the upper port pins driven as well.      *)

\* Port-C pins of these runs: A0 (PC5), CS1 (PC10), PC13 and the pulled-down
\* PC14.
LookupBits == {5, PIN_CS_INT, 13, PIN_X1}
LookupValues == {MaskOf(S) : S \in SUBSET LookupBits}

LookupAddrCs == LoadAddrCsFrom(LookupValues)

LookupStep ==
    \/ MainLoopEntry \/ LoadConsts \/ LookupAddrCs \/ TestCs \/ LoadFromRam
    \/ StoreToData \/ SetDataOut \/ SetDataIn \/ Beq \/ Bne \/ BranchAlways

LookupInit ==
    /\ rom = [rom_type |-> ROM_TYPE_2364, cs1_state |-> CS_ACTIVE_LOW,
              cs2_state |-> CS_NOT_USED, cs3_state |-> CS_NOT_USED]
    /\ logging = FALSE
    /\ phase = "entry" /\ pc = 0
    /\ cs_check_mask = 0 /\ cs_invert_mask = 0
    /\ R_ADDR_CS = 0 /\ R_CS_TEST = 0 /\ zflag = FALSE
    /\ R_DATA \in UndefBytes
    /\ GPIOA_MODER = GpioInitModer(TRUE, FALSE)
    /\ GPIOA_ODR = 0 /\ GPIOC_IDR = 0
    /\ hist = HistInit
    /\ tst = TstIdle
    /\ AuxOff

SpecLookup == LookupInit /\ [][LookupStep]_vars

-----------------------------------------------------------------------------
(* The harness run against each build; the firmware itself is not running. *)

RoundTripInit == TstInit /\ LoopOff /\ AuxOff

SpecRoundTrip == RoundTripInit /\ [][ValidateStep]_vars

-----------------------------------------------------------------------------
(* Selection test of a multi-ROM set: the masks and the any-line test of   *)
(* the serve loop for bank-switched sets, and find_responding_rom of the   *)
(* test harness.                                                           *)

\* check_mask of a multi-ROM set: CS1 and X1, and X2 for a set of three.
MultiCheckMask(set) ==
    Pow2(PIN_CS_INT) + Pow2(PIN_X1) + (IF set.rom_count = 3 THEN Pow2(PIN_X2) ELSE 0)

\* invert_mask of a multi-ROM set: all of check_mask when the shared select
\* line is active high.
MultiInvertMask(set) ==
    IF set.multi_rom_cs1_state = CS_ACTIVE_HIGH THEN MultiCheckMask(set) ELSE 0

\* A faulty variant with the all-lines test of the single-ROM loop.
AnyCsActive_AllLines(r, invert, check) ==
    BitAnd(BitXor(r, invert), check) = 0

\* effective = r XOR invert; active <=> (effective & check) != check
AnyCsActive(r, invert, check) ==
    BitAnd(BitXor(r, invert), check) # check

\* Body of "for (int i = 0; i < count; i++)" of find_responding_rom from i on;
\* configs[i] = [type, cs2, cs3] with cs2/cs3 in -1 (unspecified), 0, 1, 2.
RECURSIVE FindRespondingFrom(_, _, _, _)
FindRespondingFrom(address, configs, count, i) ==
    IF i >= count THEN -1
    ELSE
      LET cs1_active == Bit(address, 10) = 0
          x1_active == Bit(address, 14) = 0
          x2_active == Bit(address, 15) = 0
          next == FindRespondingFrom(address, configs, count, i + 1)
          rom_selected == CASE i = 0 -> cs1_active
                            [] i = 1 -> x1_active
                            [] i = 2 -> x2_active
                            [] OTHER -> FALSE
          config == configs[i + 1]
          cs2_bit == IF config.type = "2332" THEN 9 ELSE 12
          cs2_active == Bit(address, cs2_bit) = 0
          cs2_fails == /\ config.cs2 # -1 /\ config.cs2 # 2
                       /\ \/ config.cs2 = 0 /\ ~cs2_active
                          \/ config.cs2 = 1 /\ cs2_active
          cs3_active == Bit(address, 9) = 0
          cs3_fails == /\ config.cs3 # -1 /\ config.cs3 # 2
                       /\ config.type = "2316"
                       /\ \/ config.cs3 = 0 /\ ~cs3_active
                          \/ config.cs3 = 1 /\ cs3_active
      IN  IF i > 2 \/ ~rom_selected THEN next
          ELSE IF cs2_fails \/ cs3_fails THEN next
          ELSE i

find_responding_rom(address, configs, count) ==
    IF count = 1
    THEN (IF Bit(address, 10) = 0 THEN 0 ELSE -1)
    ELSE FindRespondingFrom(address, configs, count, 0)

\* ROM configurations of the sets: without and with CS2/CS3 requirements.
SelConfigs ==
    { <<[type |-> "2364", cs2 |-> -1, cs3 |-> -1],
        [type |-> "2364", cs2 |-> -1, cs3 |-> -1],
        [type |-> "2364", cs2 |-> -1, cs3 |-> -1]>>,
      <<[type |-> "2332", cs2 |-> 2, cs3 |-> -1],
        [type |-> "2316", cs2 |-> 2, cs3 |-> 2],
        [type |-> "2364", cs2 |-> -1, cs3 |-> -1]>>,
      <<[type |-> "2332", cs2 |-> 0, cs3 |-> -1],
        [type |-> "2316", cs2 |-> 1, cs3 |-> 0],
        [type |-> "2332", cs2 |-> 1, cs3 |-> -1]>> }

SelSets ==
    {[rom_count |-> n, multi_rom_cs1_state |-> st, configs |-> c] :
        n \in {2, 3}, st \in CsStates, c \in SelConfigs}

\* Port C bits of the sampled values: an address line, the chip-select
\* lines and the bank-select lines.
SelBits == {5, PIN_CS3_INT, PIN_CS_INT, PIN_CS2_INT, PIN_X1, PIN_X2}
SelValues == {MaskOf(S) : S \in SUBSET SelBits}

SelInit ==
    msel \in {[at |-> "start", set |-> x, check |-> 0, invert |-> 0, r |-> 0,
               selected |-> FALSE, responding |-> -1] : x \in SelSets}

\* The masks are derived once, before the loop.
SelMasks ==
    /\ msel.at = "start"
    /\ msel' = [msel EXCEPT !.check = MultiCheckMask(msel.set),
                            !.invert = MultiInvertMask(msel.set),
                            !.at = "sample"]
    /\ UNCHANGED <<loopVars, tst, cfg, boot, exc, f1>>

\* The host drives the port; the loop samples it.
SelSample ==
    /\ msel.at = "sample"
    /\ \E v \in SelValues : msel' = [msel EXCEPT !.r = v, !.at = "test"]
    /\ UNCHANGED <<loopVars, tst, cfg, boot, exc, f1>>

\* The any-line test on the sample, and the harness's answer for the same
\* address.
SelTest ==
    /\ msel.at = "test"
    /\ msel' = [msel EXCEPT
                  !.selected = AnyCsActive(msel.r, msel.invert, msel.check),
                  !.responding = find_responding_rom(msel.r, msel.set.configs,
                                                     msel.set.rom_count),
                  !.at = "tested"]
    /\ UNCHANGED <<loopVars, tst, cfg, boot, exc, f1>>

SelAgain ==
    /\ msel.at = "tested"
    /\ msel' = [msel EXCEPT !.at = "sample"]
    /\ UNCHANGED <<loopVars, tst, cfg, boot, exc, f1>>

SelStep == SelMasks \/ SelSample \/ SelTest \/ SelAgain

SelectInit ==
    /\ SelInit /\ LoopOff /\ tst = TstIdle
    /\ cfg = [at |-> "off"] /\ boot = [at |-> "off"]
    /\ MoreOff

SpecSelect == SelectInit /\ [][SelStep]_vars

-----------------------------------------------------------------------------
(* check_config (rp235x.c) and the serve-mode repair that follows it.      *)

SERVE_TWO_CS_ONE_ADDR == "SERVE_TWO_CS_ONE_ADDR"
SERVE_ADDR_ON_CS      == "SERVE_ADDR_ON_CS"
SERVE_ADDR_ON_ANY_CS  == "SERVE_ADDR_ON_ANY_CS"
ServeModes == {SERVE_TWO_CS_ONE_ADDR, SERVE_ADDR_ON_CS, SERVE_ADDR_ON_ANY_CS}

PORT_0 == "PORT_0"
PORT_1 == "PORT_1"

\* A pin map check_config has nothing to say about.
GoodPins ==
    [rom_pins |-> 24, data_port |-> PORT_0, addr_port |-> PORT_0,
     cs_port |-> PORT_0, sel_port |-> PORT_0,
     addr |-> <<0, 1, 2, 3, 4, 5, 6, 7, 8, 9, 10, 11, 12>>,
     data |-> <<16, 17, 18, 19, 20, 21, 22, 23>>,
     x1 |-> 14, x2 |-> 15, x_jumper_pull |-> 1,
     cs1_2364 |-> 13, cs1_2332 |-> 13, cs1_2316 |-> 13,
     cs2_2332 |-> 12, cs2_2316 |-> 11, cs3_2316 |-> 12,
     sel_jumper_pull |-> 0]

\* Ways a pin map can be inconsistent.
PinFaults == <<"rom_pins", "data_port", "addr_port", "cs_port", "sel_port",
               "addr", "data", "x1", "x2", "x_eq", "x_pull", "cs", "sel_pull">>

ApplyFault(pins, f) ==
    CASE f = "rom_pins"  -> [pins EXCEPT !.rom_pins = 28]
      [] f = "data_port" -> [pins EXCEPT !.data_port = PORT_1]
      [] f = "addr_port" -> [pins EXCEPT !.addr_port = PORT_1]
      [] f = "cs_port"   -> [pins EXCEPT !.cs_port = PORT_1]
      [] f = "sel_port"  -> [pins EXCEPT !.sel_port = PORT_1]
      [] f = "addr"      -> [pins EXCEPT !.addr[4] = 17, !.addr[13] = 200]
      [] f = "data"      -> [pins EXCEPT !.data[1] = 15, !.data[8] = 24]
      [] f = "x1"        -> [pins EXCEPT !.x1 = 16]
      [] f = "x2"        -> [pins EXCEPT !.x2 = 255]
      [] f = "x_eq"      -> [pins EXCEPT !.x1 = pins.x2]
      [] f = "x_pull"    -> [pins EXCEPT !.x_jumper_pull = 2]
      [] f = "cs"        -> [pins EXCEPT !.cs1_2364 = 16, !.cs3_2316 = 99]
      [] f = "sel_pull"  -> [pins EXCEPT !.sel_jumper_pull = 2]

RECURSIVE ApplyFaults(_, _, _)
ApplyFaults(pins, S, i) ==
    IF i > Len(PinFaults) THEN pins
    ELSE ApplyFaults(IF PinFaults[i] \in S THEN ApplyFault(pins, PinFaults[i])
                     ELSE pins, S, i + 1)

\* Pin maps with at most MaxFaults inconsistencies, and the one with all.
MaxFaults == 2
FaultSets ==
    {S \in SUBSET {PinFaults[i] : i \in 1..Len(PinFaults)} :
        Cardinality(S) <= MaxFaults \/ Cardinality(S) = Len(PinFaults)}
CfgPinMaps == {ApplyFaults(GoodPins, S, 1) : S \in FaultSets}

CfgSets == [rom_count : 1..3, serve : ServeModes]

\* Hardware registers as check_config finds them.
CfgRegs == [SIO_GPIO_OE |-> 0, SIO_GPIO_OUT |-> 0]

CfgInit ==
    cfg \in {[at |-> "rom_pins", pins |-> p, set |-> x, regs |-> CfgRegs, ii |-> 0,
              log |-> {}, serve |-> x.serve, pins0 |-> p, set0 |-> x] :
                 p \in CfgPinMaps, x \in CfgSets}

\* A logged message: its text and, in a loop, the line number it names.
Msg(m) == <<m, -1>>

CfgLog(c, msgs) == [c EXCEPT !.log = @ \cup msgs]

\* if (info->pins->rom_pins != 24) LOG(...)
CfgRomPins ==
    /\ cfg.at = "rom_pins"
    /\ cfg' = [CfgLog(cfg, IF cfg.pins.rom_pins # 24 THEN {Msg("rom_pins")} ELSE {})
                  EXCEPT !.at = "ports"]
    /\ UNCHANGED <<loopVars, tst, msel, boot, exc, f1>>

\* The four port (bank) checks.
CfgPorts ==
    /\ cfg.at = "ports"
    /\ cfg' = [CfgLog(cfg,
                  (IF cfg.pins.data_port # PORT_0 THEN {Msg("data_port")} ELSE {})
                  \cup (IF cfg.pins.addr_port # PORT_0 THEN {Msg("addr_port")} ELSE {})
                  \cup (IF cfg.pins.cs_port # PORT_0 THEN {Msg("cs_port")} ELSE {})
                  \cup (IF cfg.pins.sel_port # PORT_0 THEN {Msg("sel_port")} ELSE {}))
                  EXCEPT !.at = "addr", !.ii = 0]
    /\ UNCHANGED <<loopVars, tst, msel, boot, exc, f1>>

\* for (int ii = 0; ii < 13; ii++) if (addr[ii] > 16) LOG(...)
CfgAddrPin ==
    /\ cfg.at = "addr"
    /\ cfg' = IF cfg.ii < 13
              THEN [CfgLog(cfg, IF cfg.pins.addr[cfg.ii + 1] > 16
                                THEN {<<"addr", cfg.ii>>} ELSE {})
                       EXCEPT !.ii = @ + 1]
              ELSE [cfg EXCEPT !.at = "data", !.ii = 0]
    /\ UNCHANGED <<loopVars, tst, msel, boot, exc, f1>>

\* for (int ii = 0; ii < 8; ii++) if ((pin < 16) || (pin > 23)) LOG(...)
CfgDataPin ==
    /\ cfg.at = "data"
    /\ cfg' = IF cfg.ii < 8
              THEN [CfgLog(cfg, LET pin == cfg.pins.data[cfg.ii + 1]
                                IN  IF pin < 16 \/ pin > 23
                                    THEN {<<"data", cfg.ii>>} ELSE {})
                       EXCEPT !.ii = @ + 1]
              ELSE [cfg EXCEPT !.at = "x_pins"]
    /\ UNCHANGED <<loopVars, tst, msel, boot, exc, f1>>

\* A faulty variant that stops on equal X1 and X2.
CfgXPins_Halt ==
    /\ cfg.at = "x_pins"
    /\ cfg' = [cfg EXCEPT !.at = IF cfg.set.rom_count > 1 /\ cfg.pins.x1 = cfg.pins.x2
                                 THEN "halted" ELSE "cs_pins"]
    /\ UNCHANGED <<loopVars, tst, msel, boot, exc, f1>>

\* if (set->rom_count > 1) { the X1/X2 checks }
CfgXPins ==
    /\ cfg.at = "x_pins"
    /\ cfg' = [CfgLog(cfg,
                  IF cfg.set.rom_count > 1
                  THEN (IF cfg.pins.x1 > 15 THEN {Msg("x1")} ELSE {})
                       \cup (IF cfg.pins.x2 > 15 THEN {Msg("x2")} ELSE {})
                       \cup (IF cfg.pins.x1 = cfg.pins.x2 THEN {Msg("x1=x2")} ELSE {})
                       \cup (IF cfg.pins.x_jumper_pull > 1 THEN {Msg("x_pull")} ELSE {})
                  ELSE {})
                  EXCEPT !.at = "cs_pins"]
    /\ UNCHANGED <<loopVars, tst, msel, boot, exc, f1>>

\* The six chip-select pin checks.
CfgCsPins ==
    /\ cfg.at = "cs_pins"
    /\ cfg' = [CfgLog(cfg,
                  (IF cfg.pins.cs1_2364 > 15 THEN {Msg("cs1_2364")} ELSE {})
                  \cup (IF cfg.pins.cs1_2332 > 15 THEN {Msg("cs1_2332")} ELSE {})
                  \cup (IF cfg.pins.cs1_2316 > 15 THEN {Msg("cs1_2316")} ELSE {})
                  \cup (IF cfg.pins.cs2_2332 > 15 THEN {Msg("cs2_2332")} ELSE {})
                  \cup (IF cfg.pins.cs2_2316 > 15 THEN {Msg("cs2_2316")} ELSE {})
                  \cup (IF cfg.pins.cs3_2316 > 15 THEN {Msg("cs3_2316")} ELSE {}))
                  EXCEPT !.at = "sel_pull"]
    /\ UNCHANGED <<loopVars, tst, msel, boot, exc, f1>>

\* if (info->pins->sel_jumper_pull > 1) LOG(...)
CfgSelPull ==
    /\ cfg.at = "sel_pull"
    /\ cfg' = [CfgLog(cfg, IF cfg.pins.sel_jumper_pull > 1 THEN {Msg("sel_pull")} ELSE {})
                  EXCEPT !.at = "serve"]
    /\ UNCHANGED <<loopVars, tst, msel, boot, exc, f1>>

\* if ((set->rom_count == 1) && (set->serve == SERVE_ADDR_ON_ANY_CS)) LOG(...)
\* and the return.
CfgServeWarn ==
    /\ cfg.at = "serve"
    /\ cfg' = [CfgLog(cfg, IF cfg.set.rom_count = 1 /\ cfg.set.serve = SERVE_ADDR_ON_ANY_CS
                           THEN {Msg("serve")} ELSE {})
                  EXCEPT !.at = "returned"]
    /\ UNCHANGED <<loopVars, tst, msel, boot, exc, f1>>

\* A faulty variant that repairs only the single-ROM case.
EffectiveServe_SingleOnly(rom_count, serve) ==
    IF rom_count = 1 /\ serve = SERVE_ADDR_ON_ANY_CS THEN SERVE_TWO_CS_ONE_ADDR
    ELSE serve

\* The serve mode main_loop uses (a local variable; set->serve is const).
EffectiveServe(rom_count, serve) ==
    IF rom_count = 1 /\ serve = SERVE_ADDR_ON_ANY_CS THEN SERVE_TWO_CS_ONE_ADDR
    ELSE IF rom_count > 1 /\ serve # SERVE_ADDR_ON_ANY_CS THEN SERVE_ADDR_ON_ANY_CS
    ELSE serve

\* main_loop corrects its serve mode and starts serving.
CfgRepair ==
    /\ cfg.at = "returned"
    /\ cfg' = [cfg EXCEPT !.serve = EffectiveServe(cfg.set.rom_count, cfg.set.serve),
                          !.at = "serving"]
    /\ UNCHANGED <<loopVars, tst, msel, boot, exc, f1>>

CfgStep ==
    \/ CfgRomPins \/ CfgPorts \/ CfgAddrPin \/ CfgDataPin \/ CfgXPins
    \/ CfgCsPins \/ CfgSelPull \/ CfgServeWarn \/ CfgRepair

ConfigInit ==
    /\ CfgInit /\ LoopOff /\ tst = TstIdle
    /\ msel = [at |-> "off"] /\ boot = [at |-> "off"]
    /\ MoreOff

SpecConfig == ConfigInit /\ [][CfgStep]_vars

-----------------------------------------------------------------------------
(* main (main.c) on the STM32F4, from reset to the call of main_loop:      *)
(* bootloader check, clock and GPIO setup, image selection and preload.    *)

PORT_B == "PORT_B"
PORT_C == "PORT_C"
F401 == "F401"
F411 == "F411"
F446 == "F446"

\* Firmware builds: their rom_set arrays (one, two and three sets).
BootBuilds == <<
    <<SingleSet(ROM_TYPE_2364, 0)>>,
    <<SingleSet(ROM_TYPE_2316, 0),
      MultiSet(<<ROM_TYPE_2316, ROM_TYPE_2316>>, 1, CS_ACTIVE_HIGH)>>,
    <<SingleSet(ROM_TYPE_2364, 0), SingleSet(ROM_TYPE_2332, 1),
      MultiSet(<<ROM_TYPE_2364, ROM_TYPE_2332, ROM_TYPE_2316>>, 2, CS_ACTIVE_LOW)>> >>

\* sdrr_info.pins->sel[] and sel_port as configured.
BootSelConfigs ==
    {[sel_port |-> PORT_B, sel |-> <<0, 1, 2, 7>>],
     [sel_port |-> PORT_B, sel |-> <<0, 1, 255, 255>>],
     [sel_port |-> PORT_B, sel |-> <<0, 1, 2, 16>>],
     [sel_port |-> PORT_B, sel |-> <<255, 255, 255, 255>>],
     [sel_port |-> PORT_C, sel |-> <<0, 1, 2, 7>>]}

\* stm_line and freq (MHz) as configured.
BootClockConfigs ==
    {[stm_line |-> F401, freq |-> 84], [stm_line |-> F411, freq |-> 100],
     [stm_line |-> F446, freq |-> 180]}

BootInfos ==
    {[bootloader_capable |-> bc, sel_port |-> sc.sel_port, sel |-> sc.sel,
      preload_image_to_ram |-> pre, swd_enabled |-> TRUE, mco_enabled |-> mco,
      stm_line |-> cc.stm_line, freq |-> cc.freq] :
        bc \in BOOLEAN, sc \in BootSelConfigs, pre \in BOOLEAN, mco \in BOOLEAN,
        cc \in BootClockConfigs}

\* Port B pins the image-select jumpers can pull high.
JumperPins == {0, 1, 2, 7}
JumperValues == {MaskOf(S) : S \in SUBSET JumperPins}

\* Registers that configure the clock tree.
ClockRegs == {"PWR_CR", "RCC_PLLCFGR", "RCC_CR", "RCC_CFGR", "FLASH_ACR"}

\* Pointers: no table, a set's data in flash, the RAM image.
NULL == <<"NULL", -1>>
FlashData(idx) == <<"flash", idx>>
RAM_ROM_IMAGE_START == <<"ram", 0>>

\* Bits of a mask "k << (pin * 2)" within 32 bits (k given by its bits).
Shifted2(kbits, pin) == {b + 2 * pin : b \in kbits} \cap (0..31)

\* State at reset: sdrr_runtime_info as initialised in main.c, port B
\* registers at their reset values, the GPIOB clock off.
BootReset(b, i, j) ==
    [at |-> "main", build |-> b, info |-> i, GPIOB_IDR |-> j,
     gpiob_clk |-> FALSE, clk_enabled_for_check |-> FALSE,
     GPIOB_MODER |-> {7, 9}, GPIOB_PUPDR |-> {8},
     GPIOA_MODER |-> 0,
     sel_1bit_mask |-> 0, pins |-> 0, sel_mask |-> 0, sel_pins |-> 0,
     clock_writes |-> {},
     magic |-> "sdrr", runtime_info_size |-> "sizeof(sdrr_runtime_info_t)",
     rom_set_index |-> 255, rom_table |-> NULL, rom_table_size |-> 0,
     rom_size |-> 0, ram |-> [copied |-> 0, from |-> -1]]

BootInit ==
    boot \in {BootReset(b, i, j) :
                  b \in 1..Len(BootBuilds), i \in BootInfos, j \in JumperValues}

boot_rom_set == BootBuilds[boot.build]
SDRR_NUM_IMAGES == Len(boot_rom_set)

BootRest == UNCHANGED <<loopVars, tst, msel, cfg, exc, f1>>

\* if (sdrr_info.bootloader_capable) check_enter_bootloader();
MainStart ==
    /\ boot.at = "main"
    /\ boot' = [boot EXCEPT !.at = IF boot.info.bootloader_capable
                                   THEN "check_sel_pins" ELSE "system_init"]
    /\ BootRest

\* A faulty variant without the port test.
CheckSelPort_NoPortTest ==
    /\ boot.at = "check_sel_pins"
    /\ boot' = [boot EXCEPT !.gpiob_clk = TRUE, !.clk_enabled_for_check = TRUE,
                            !.at = "sel_masks"]
    /\ BootRest

\* check_sel_pins: the port test, and the GPIOB clock enabled.
CheckSelPort ==
    /\ boot.at = "check_sel_pins"
    /\ boot' = IF boot.info.sel_port # PORT_B
               THEN [boot EXCEPT !.sel_mask = 0, !.sel_pins = 0, !.at = "check_enter"]
               ELSE [boot EXCEPT !.gpiob_clk = TRUE, !.clk_enabled_for_check = TRUE,
                                 !.at = "sel_masks"]
    /\ BootRest

RECURSIVE Sel1BitPins_NoSkip(_, _)
\* A faulty variant that keeps the pins above 15.
Sel1BitPins_NoSkip(sel, from) ==
    IF from > 4 THEN {}
    ELSE (IF sel[from] < 255 THEN {sel[from]} ELSE {})
         \cup Sel1BitPins_NoSkip(sel, from + 1)

\* sel_1bit_mask of the pins sel[from..4] that are present and at most 15.
RECURSIVE Sel1BitPins(_, _)
Sel1BitPins(sel, from) ==
    IF from > 4 THEN {}
    ELSE (IF sel[from] < 255 /\ sel[from] <= 15 THEN {sel[from]} ELSE {})
         \cup Sel1BitPins(sel, from + 1)

\* check_sel_pins: the mask loop and the writes that make the pins inputs
\* with pull-downs (11 and 10 are decimal in the source: bits 0, 1, 3 and
\* bits 1, 3).
CheckSelMasks ==
    /\ boot.at = "sel_masks"
    /\ LET used == Sel1BitPins(boot.info.sel, 1)
           sel_2bit_mask == UNION {Shifted2({0, 1, 3}, p) : p \in used}
           pull_downs == UNION {Shifted2({1, 3}, p) : p \in used}
       IN  boot' = [boot EXCEPT
                      !.sel_1bit_mask = MaskOf(used),
                      !.GPIOB_MODER = @ \ sel_2bit_mask,
                      !.GPIOB_PUPDR = (@ \ sel_2bit_mask) \cup pull_downs,
                      !.at = "sel_read"]
    /\ BootRest

\* uint32_t pins = GPIOB_IDR;
CheckSelRead ==
    /\ boot.at = "sel_read"
    /\ boot' = [boot EXCEPT !.pins = boot.GPIOB_IDR, !.at = "sel_return"]
    /\ BootRest

\* A faulty variant that leaves the GPIOB clock enabled.
CheckSelReturn_ClockLeftOn ==
    /\ boot.at = "sel_return"
    /\ boot' = [boot EXCEPT !.sel_mask = boot.sel_1bit_mask,
                            !.sel_pins = BitAnd(boot.pins, boot.sel_1bit_mask),
                            !.at = "check_enter"]
    /\ BootRest

\* RCC_AHB1ENR &= ~RCC_AHB1ENR_GPIOBEN; *sel_mask = ...; return (pins & mask);
CheckSelReturn ==
    /\ boot.at = "sel_return"
    /\ boot' = [boot EXCEPT !.gpiob_clk = FALSE,
                            !.sel_mask = boot.sel_1bit_mask,
                            !.sel_pins = BitAnd(boot.pins, boot.sel_1bit_mask),
                            !.at = "check_enter"]
    /\ BootRest

\* A faulty variant that enters on any high select pin.
EnterBootloaderTest_AnyHigh(sel_pins, sel_mask) ==
    sel_mask # 0 /\ BitAnd(sel_pins, sel_mask) # 0

\* check_enter_bootloader: the two tests on sel_mask and sel_pins.
EnterBootloaderTest(sel_pins, sel_mask) ==
    sel_mask # 0 /\ BitAnd(sel_pins, sel_mask) = sel_mask

\* check_enter_bootloader after check_sel_pins has returned.
CheckEnter ==
    /\ boot.at = "check_enter"
    /\ boot' = [boot EXCEPT !.at = IF EnterBootloaderTest(boot.sel_pins, boot.sel_mask)
                                   THEN "enter_bootloader" ELSE "system_init"]
    /\ BootRest

\* enter_bootloader: set the stack pointer and jump; there is no return.
EnterBootloader ==
    /\ boot.at = "enter_bootloader"
    /\ boot' = [boot EXCEPT !.at = "bootloader"]
    /\ BootRest

\* system_init: power scale 1 on lines that need it above 84MHz.
SysPowerScale ==
    /\ boot.at = "system_init"
    /\ boot' = [boot EXCEPT
                  !.clock_writes =
                      IF boot.info.stm_line \in {F411, F446} /\ boot.info.freq > 84
                      THEN @ \cup {"PWR_CR"} ELSE @,
                  !.at = "pll"]
    /\ BootRest

\* setup_pll_mul, setup_pll_src, enable_pll (the PLL becomes ready).
SysPll ==
    /\ boot.at = "pll"
    /\ boot' = [boot EXCEPT !.clock_writes = @ \cup {"RCC_PLLCFGR", "RCC_CR"},
                            !.at = "overdrive"]
    /\ BootRest

\* Overdrive on the F446 above 168MHz.
SysOverdrive ==
    /\ boot.at = "overdrive"
    /\ boot' = [boot EXCEPT
                  !.clock_writes =
                      IF boot.info.stm_line = F446 /\ boot.info.freq > 168
                      THEN @ \cup {"PWR_CR"} ELSE @,
                  !.at = "bus_clks"]
    /\ BootRest

\* set_bus_clks: the AHB, APB1 and APB2 prescalers.
SysBusClks ==
    /\ boot.at = "bus_clks"
    /\ boot' = [boot EXCEPT !.clock_writes = @ \cup {"RCC_CFGR"}, !.at = "flash_ws"]
    /\ BootRest

\* set_flash_ws: caches, prefetch and latency.
SysFlashWs ==
    /\ boot.at = "flash_ws"
    /\ boot' = [boot EXCEPT !.clock_writes = @ \cup {"FLASH_ACR"}, !.at = "set_clock"]
    /\ BootRest

\* set_clock(RCC_CFGR_SW_PLL): the system clock switches to the PLL.
SysSetClock ==
    /\ boot.at = "set_clock"
    /\ boot' = [boot EXCEPT !.clock_writes = @ \cup {"RCC_CFGR"}, !.at = "gpio_init"]
    /\ BootRest

\* gpio_init: port clocks on, port A mode, port B inputs with pull-downs on
\* PB0-2 and PB7 (0xC03F cleared, 0x802A set).
GpioInit ==
    /\ boot.at = "gpio_init"
    /\ boot' = [boot EXCEPT
                  !.gpiob_clk = TRUE,
                  !.GPIOA_MODER = GpioInitModer(boot.info.swd_enabled,
                                                boot.info.mco_enabled),
                  !.GPIOB_MODER = {},
                  !.GPIOB_PUPDR = (@ \ {0, 1, 2, 3, 4, 5, 14, 15}) \cup {1, 3, 5, 15},
                  !.at = "get_rom_index"]
    /\ BootRest

\* rom_sel = GPIOB_IDR (uint8_t); PB7 is moved to bit 3.
RomSel(idr) ==
    LET rom_sel == idr % 256
    IN  BitOr(BitAnd(rom_sel, 7), BitAnd(rom_sel, 128) \div 16)

\* A faulty variant that does not wrap.
RomIndex_NoWrap(rom_sel, num_images) == rom_sel

\* rom_index = rom_sel % SDRR_NUM_IMAGES;
RomIndex(rom_sel, num_images) == rom_sel % num_images

\* get_rom_index, and main storing its result: the jumpers are read, the
\* GPIOB clock is switched off.
GetRomIndex ==
    /\ boot.at = "get_rom_index"
    /\ boot' = [boot EXCEPT
                  !.gpiob_clk = FALSE,
                  !.rom_set_index = RomIndex(RomSel(boot.GPIOB_IDR), SDRR_NUM_IMAGES),
                  !.at = "preload"]
    /\ BootRest

\* set = rom_set + sdrr_runtime_info.rom_set_index (sequences count from 1).
BootSet == boot_rom_set[boot.rom_set_index + 1]

\* uint16_t rom_size = rom->size;
PreloadRomSize(size) == size % 65536

\* What preload_rom_image hands back to main: the address of the RAM image.
preload_rom_image_return == RAM_ROM_IMAGE_START

\* preload_rom_image on the STM32F4: memcpy(rom_dst, rom_src, rom_size) into
\* the RAM image; main stores the returned pointer in rom_table.
PreloadRomImage ==
    /\ boot.at = "preload"
    /\ boot.info.preload_image_to_ram
    /\ LET rom_size == PreloadRomSize(SetTableSize(BootSet))
       IN  boot' = [boot EXCEPT
                      !.rom_size = rom_size,
                      !.ram = [copied |-> rom_size, from |-> boot.rom_set_index],
                      !.rom_table = preload_rom_image_return,
                      !.at = "table_size"]
    /\ BootRest

\* A faulty variant that leaves the table pointer unset.
FlashTablePointer_Unset(idx) == NULL

\* (void *)&(set->data[0])
FlashTablePointer(idx) == FlashData(idx)

\* sdrr_runtime_info.rom_table = (void *)&(set->data[0]);
ServeFromFlash ==
    /\ boot.at = "preload"
    /\ ~boot.info.preload_image_to_ram
    /\ boot' = [boot EXCEPT !.rom_table = FlashTablePointer(boot.rom_set_index),
                            !.at = "table_size"]
    /\ BootRest

\* sdrr_runtime_info.rom_table_size = set->size;
StoreTableSize ==
    /\ boot.at = "table_size"
    /\ boot' = [boot EXCEPT !.rom_table_size = SetTableSize(BootSet),
                            !.at = "mco_led"]
    /\ BootRest

\* setup_mco: the mode field of PA8 is set to alternate function.
SetPa8Af(m) == m - ((m \div Pow2(16)) % 4) * Pow2(16) + 2 * Pow2(16)

\* setup_mco and setup_status_led when enabled: neither touches the table
\* or the data pins.
SetupMcoLed ==
    /\ boot.at = "mco_led"
    /\ boot' = [boot EXCEPT
                  !.GPIOA_MODER = IF boot.info.mco_enabled THEN SetPa8Af(@) ELSE @,
                  !.clock_writes = IF boot.info.mco_enabled
                                   THEN @ \cup {"RCC_CFGR"} ELSE @,
                  !.at = "call_main_loop"]
    /\ BootRest

\* main_loop(&sdrr_info, set): the serve loop starts; it does not return.
CallMainLoop ==
    /\ boot.at = "call_main_loop"
    /\ boot' = [boot EXCEPT !.at = "main_loop"]
    /\ BootRest

\* Byte i of the RAM image, where memcpy has written it.
RamHolds(i, b) ==
    /\ boot.ram.from >= 0
    /\ i < boot.ram.copied
    /\ b = SetTableByte(boot_rom_set[boot.ram.from + 1], i)

BootStep ==
    \/ MainStart
    \/ CheckSelPort
    \/ CheckSelMasks
    \/ CheckSelRead
    \/ CheckSelReturn
    \/ CheckEnter
    \/ EnterBootloader
    \/ SysPowerScale
    \/ SysPll
    \/ SysOverdrive
    \/ SysBusClks
    \/ SysFlashWs
    \/ SysSetClock
    \/ GpioInit
    \/ GetRomIndex
    \/ PreloadRomImage
    \/ ServeFromFlash
    \/ StoreTableSize
    \/ SetupMcoLed
    \/ CallMainLoop

BootSpecInit ==
    /\ BootInit
    /\ tst = TstIdle
    /\ LoopOff
    /\ msel = [at |-> "off"]
    /\ cfg = [at |-> "off"]
    /\ MoreOff

SpecBoot == BootSpecInit /\ [][BootStep]_vars

-----------------------------------------------------------------------------
(* The firmware from reset into the serve loop: main, then main_loop.      *)

\* Configurations of the whole-firmware runs.
RunInfos ==
    {[i EXCEPT !.swd_enabled = swd] :
        i \in {b \in BootInfos : /\ b.sel_port = PORT_B /\ b.sel = <<0, 1, 2, 7>>
                                 /\ b.stm_line = F411},
        swd \in BOOLEAN}
RunJumpers == {1, MaskOf(JumperPins)}
\* The build with three ROM sets.
RunBuild == Len(BootBuilds)

\* The chip-select configurations a single-ROM set can carry into main_loop.
RunRoms(set) ==
    {r \in LoopRoms :
        /\ r.rom_type = set.roms[1].rom_type
        /\ (r.cs1_state = CS_ACTIVE_LOW) = (set.roms[1].cs1 = 0)}

\* A faulty variant in which main_loop stores the table pointer itself.
MainLoopStart_WritesTable ==
    /\ boot.at = "main_loop"
    /\ phase = "off"
    /\ BootSet.rom_count = 1
    /\ \E r \in RunRoms(BootSet) : rom' = r
    /\ phase' = "entry"
    /\ GPIOA_MODER' = boot.GPIOA_MODER
    /\ \E d \in UndefBytes : R_DATA' = d
    /\ boot' = [boot EXCEPT !.rom_table = RAM_ROM_IMAGE_START]
    /\ UNCHANGED <<logging, pc, cs_check_mask, cs_invert_mask, R_ADDR_CS, R_CS_TEST,
                   zflag, GPIOA_ODR, GPIOC_IDR, hist, tst, msel, cfg, exc, f1>>

\* main_loop is entered with the selected set; port A is as gpio_init left it.
MainLoopStart ==
    /\ boot.at = "main_loop"
    /\ phase = "off"
    /\ BootSet.rom_count = 1
    /\ \E r \in RunRoms(BootSet) : rom' = r
    /\ phase' = "entry"
    /\ GPIOA_MODER' = boot.GPIOA_MODER
    /\ \E d \in UndefBytes : R_DATA' = d
    /\ UNCHANGED <<logging, pc, cs_check_mask, cs_invert_mask, R_ADDR_CS, R_CS_TEST,
                   zflag, GPIOA_ODR, GPIOC_IDR, hist, tst, auxVars>>

RunStep == BootStep \/ MainLoopStart \/ LoopStep

RunInit ==
    /\ boot \in {BootReset(RunBuild, i, j) : i \in RunInfos, j \in RunJumpers}
    /\ rom = [rom_type |-> ROM_TYPE_2364, cs1_state |-> CS_ACTIVE_LOW,
              cs2_state |-> CS_NOT_USED, cs3_state |-> CS_NOT_USED]
    /\ logging \in BOOLEAN
    /\ phase = "off" /\ pc = 0
    /\ cs_check_mask = 0 /\ cs_invert_mask = 0
    /\ R_ADDR_CS = 0 /\ R_DATA = 0 /\ R_CS_TEST = 0 /\ zflag = FALSE
    /\ GPIOA_MODER = 0 /\ GPIOA_ODR = 0 /\ GPIOC_IDR = 0
    /\ hist = HistInit
    /\ tst = TstIdle
    /\ msel = [at |-> "off"]
    /\ cfg = [at |-> "off"]
    /\ MoreOff

SpecRun == RunInit /\ [][RunStep]_vars

-----------------------------------------------------------------------------
(* preload_rom_image on the STM32F1: the copy that skips index bit 3.      *)

\* Largest image size of the copy runs (bytes).
F1MaxRomSize == 20

\* Byte ii of the image in flash.
F1SrcByte(ii) == (ii * 37 + 11) % 256

\* A faulty variant: the straight copy of the STM32F4 branch.
F1DstOffset_Linear(byte_offset) == byte_offset

\* dst_offset = (byte_offset & 0x7) | ((byte_offset & ~0x7) << 1);
F1DstOffset(byte_offset) ==
    (byte_offset % 8) + (byte_offset - (byte_offset % 8)) * 2

\* The RAM image holds whatever the RAM held at reset until it is written.
F1PreloadInit ==
    boot \in {[at |-> "f1_copy", rom_size |-> n, ii |-> 0,
               ram |-> [o \in 0..(2 * F1MaxRomSize + 1) |-> fill]] :
                  n \in 1..F1MaxRomSize, fill \in UndefBytes}

\* One pass of the for loop: a byte is read and written at its offset.
F1CopyByte ==
    /\ boot.at = "f1_copy"
    /\ boot.ii < boot.rom_size
    /\ boot' = [boot EXCEPT !.ram[F1DstOffset(boot.ii)] = F1SrcByte(boot.ii),
                            !.ii = @ + 1]
    /\ BootRest

\* The loop ends; preload_rom_image returns.
F1CopyDone ==
    /\ boot.at = "f1_copy"
    /\ boot.ii >= boot.rom_size
    /\ boot' = [boot EXCEPT !.at = "f1_done"]
    /\ BootRest

F1PreloadStep == F1CopyByte \/ F1CopyDone

F1PreloadSpecInit ==
    /\ F1PreloadInit
    /\ tst = TstIdle
    /\ LoopOff
    /\ msel = [at |-> "off"]
    /\ cfg = [at |-> "off"]
    /\ MoreOff

SpecPreloadF1 == F1PreloadSpecInit /\ [][F1PreloadStep]_vars

-----------------------------------------------------------------------------
(* The exception handlers of vector.c, entered while main_loop is serving. *)

\* The handlers of the vector table and the blinks of their patterns.
Handlers == {"Default_Handler", "NMI_Handler", "HardFault_Handler",
             "BusFault_Handler", "UsageFault_Handler"}
Repeats(h) == CASE h = "NMI_Handler" -> 1
                [] h = "HardFault_Handler" -> 2
                [] h = "BusFault_Handler" -> 3
                [] h = "UsageFault_Handler" -> 4
                [] OTHER -> 0

\* sdrr_info.pins->status_port and ->status as configured.
StatusPins == {[status_port |-> PORT_B, status |-> 15],
               [status_port |-> PORT_B, status |-> 0],
               [status_port |-> PORT_C, status |-> 15],
               [status_port |-> PORT_B, status |-> 16]}

ExcInit ==
    exc \in {[at |-> "serving", handler |-> "none", status_led_enabled |-> led,
              pins |-> sp, led_is_output |-> FALSE, lit |-> FALSE, i |-> 0] :
                 led \in BOOLEAN, sp \in StatusPins}

ExcRest == UNCHANGED <<loopVars, tst, msel, cfg, boot, f1>>

\* The status pin can be driven: the tests of setup_status_led and blink_pattern.
StatusPinUsable ==
    /\ exc.status_led_enabled
    /\ exc.pins.status_port = PORT_B
    /\ exc.pins.status <= 15

\* An exception is taken: the processor enters the handler of its vector.
ExcTaken ==
    /\ exc.at = "serving"
    /\ \E h \in Handlers : exc' = [exc EXCEPT !.at = "handler", !.handler = h]
    /\ ExcRest

\* Default_Handler up to its loop: with the LED disabled the function body
\* is skipped and the handler returns.
DefaultEntry ==
    /\ exc.at = "handler"
    /\ exc.handler = "Default_Handler"
    /\ exc' = IF exc.status_led_enabled
              THEN [exc EXCEPT !.led_is_output = StatusPinUsable, !.at = "default_on"]
              ELSE [exc EXCEPT !.at = "returned"]
    /\ ExcRest

\* GPIOB_BSRR = (1 << (15 + 16)); delay(50000);
DefaultOn ==
    /\ exc.at = "default_on"
    /\ exc' = [exc EXCEPT !.lit = TRUE, !.at = "default_off"]
    /\ ExcRest

\* GPIOB_BSRR = (1 << 15); delay(50000); and round the loop.
DefaultOff ==
    /\ exc.at = "default_off"
    /\ exc' = [exc EXCEPT !.lit = FALSE, !.at = "default_on"]
    /\ ExcRest

\* NMI, HardFault, BusFault and UsageFault: setup_status_led, then while (1).
FaultEntry ==
    /\ exc.at = "handler"
    /\ exc.handler # "Default_Handler"
    /\ exc' = [exc EXCEPT !.led_is_output = StatusPinUsable, !.i = 0, !.at = "blink"]
    /\ ExcRest

\* blink_pattern: the LED goes on for one blink, or the pattern is over.
BlinkOn ==
    /\ exc.at = "blink"
    /\ exc' = IF StatusPinUsable /\ exc.i < Repeats(exc.handler)
              THEN [exc EXCEPT !.lit = TRUE, !.at = "blink_off"]
              ELSE [exc EXCEPT !.at = "pause"]
    /\ ExcRest

\* blink_pattern: the LED goes off again.
BlinkOff ==
    /\ exc.at = "blink_off"
    /\ exc' = [exc EXCEPT !.lit = FALSE, !.i = @ + 1, !.at = "blink"]
    /\ ExcRest

\* delay(1000000) after the pattern, and round the loop.
LongPause ==
    /\ exc.at = "pause"
    /\ exc' = [exc EXCEPT !.i = 0, !.at = "blink"]
    /\ ExcRest

ExcStep ==
    \/ ExcTaken \/ DefaultEntry \/ DefaultOn \/ DefaultOff
    \/ FaultEntry \/ BlinkOn \/ BlinkOff \/ LongPause

ExcSpecInit ==
    /\ ExcInit
    /\ tst = TstIdle
    /\ LoopOff
    /\ msel = [at |-> "off"] /\ cfg = [at |-> "off"] /\ boot = [at |-> "off"]
    /\ f1 = [at |-> "off"]

SpecFault == ExcSpecInit /\ [][ExcStep]_vars

-----------------------------------------------------------------------------
(* main_loop (STM32F1): the assembly serve loop, one program per build.    *)

\* An instruction with an immediate operand.
F1Imm(op, imm, line) == [op |-> op, arg |-> "", imm |-> imm, line |-> line]
F1Ins(op, line) == F1Imm(op, 0, line)
F1Jmp(op, target, line) == [op |-> op, arg |-> target, imm |-> 0, line |-> line]
F1Lbl(name, line) == [op |-> "LABEL", arg |-> name, imm |-> 0, line |-> line]

\* Builds: ROM type, CSn_ACTIVE_LOW, hardware revision, MAIN_LOOP_LOGGING.
F1Builds ==
    {[rom_type |-> ROM_TYPE_2364, cs1_low |-> c1, cs2_low |-> TRUE, cs3_low |-> TRUE,
      hw_rev |-> h, logging |-> l] : c1 \in BOOLEAN, h \in {"B", "C"}, l \in BOOLEAN}
    \cup
    {[rom_type |-> ROM_TYPE_2332, cs1_low |-> c1, cs2_low |-> TRUE, cs3_low |-> c3,
      hw_rev |-> h, logging |-> l] :
        c1 \in BOOLEAN, c3 \in BOOLEAN, h \in {"B", "C"}, l \in BOOLEAN}
    \cup
    {[rom_type |-> ROM_TYPE_2316, cs1_low |-> c1, cs2_low |-> c2, cs3_low |-> c3,
      hw_rev |-> h, logging |-> l] :
        c1 \in BOOLEAN, c2 \in BOOLEAN, c3 \in BOOLEAN, h \in {"C"}, l \in {FALSE}}

\* The chip-select lines a ROM type uses: PC10 (CS1), PC11 (CS2), PC12 (CS3).
F1CsMask(c) == CASE c.rom_type = ROM_TYPE_2364 -> Pow2(10)
                 [] c.rom_type = ROM_TYPE_2332 -> 5 * Pow2(10)
                 [] OTHER -> 7 * Pow2(10)

\* The value of those lines when every one of them is at its active level.
F1CsPattern(c) ==
    BitAnd(F1CsMask(c),
           (IF c.cs1_low THEN 0 ELSE Pow2(10)) + (IF c.cs2_low THEN 0 ELSE Pow2(11))
           + (IF c.cs3_low THEN 0 ELSE Pow2(12)))

F1AllLow(c) == F1CsPattern(c) = 0

\* main_asm_loop: wait for the chip select(s) to go active.
F1WaitActive(c) ==
    IF c.rom_type = ROM_TYPE_2364
    THEN << F1Ins("LDRH_CS", 174), F1Imm("TST", Pow2(10), 175),
            F1Jmp(IF c.cs1_low THEN "BNE" ELSE "BEQ", "main_asm_loop", 179) >>
    ELSE << F1Ins("LDRH_CS", 192) >>
         \o (IF F1AllLow(c)
             THEN << F1Imm("TST", F1CsMask(c), 195) >>
             ELSE << F1Imm("AND", F1CsMask(c), 198),
                     F1Imm("CMP", F1CsPattern(c), 201),
                     F1Jmp("BNE", "main_asm_loop", 211) >>)

\* A faulty variant: the pins are made outputs before the output registers
\* are written.
F1Serve_OutFirst(c) ==
       << F1Ins("LDRH_ADDR", 262), F1Ins("LSR2", 265), F1Ins("LDRB", 271) >>
    \o (IF c.hw_rev = "C"
        THEN << F1Ins("LSL8", 296), F1Ins("OUT_CRH_A", 309),
                F1Ins("STRH_ODR_A", 302) >>
        ELSE << F1Imm("AND_R2", 15, 284), F1Ins("LSL6_R2", 285),
                F1Imm("AND_R0", 240, 292), F1Ins("LSL4", 293),
                F1Ins("OUT_CRH_A", 309), F1Ins("OUT_CRL_C", 312),
                F1Ins("OUT_CRH_C", 313),
                F1Ins("STRH_ODR_A", 302), F1Ins("STRH_ODR_C", 305) >>)

\* The address is read and shifted, the byte looked up and split over the
\* ports, the output registers written and then the pins made outputs.
F1Serve(c) ==
       << F1Ins("LDRH_ADDR", 262), F1Ins("LSR2", 265), F1Ins("LDRB", 271) >>
    \o (IF c.hw_rev = "C"
        THEN << F1Ins("LSL8", 296), F1Ins("STRH_ODR_A", 302),
                F1Ins("OUT_CRH_A", 309) >>
        ELSE << F1Imm("AND_R2", 15, 284), F1Ins("LSL6_R2", 285),
                F1Imm("AND_R0", 240, 292), F1Ins("LSL4", 293),
                F1Ins("STRH_ODR_A", 302), F1Ins("STRH_ODR_C", 305),
                F1Ins("OUT_CRH_A", 309), F1Ins("OUT_CRL_C", 312),
                F1Ins("OUT_CRH_C", 313) >>)

\* wait_cs_high: wait for the chip select(s) to go inactive.  The "and" of
\* the 2332 and 2316 paths does not update the flags.
F1WaitInactive(c) ==
    << F1Lbl("wait_cs_high", 317) >>
    \o (IF c.rom_type = ROM_TYPE_2364
        THEN << F1Ins("LDRH_CS", 326), F1Imm("TST", Pow2(10), 327),
                F1Jmp(IF c.cs1_low THEN "BEQ" ELSE "BNE", "wait_cs_high", 331) >>
        ELSE << F1Ins("LDRH_CS", 338), F1Imm("AND", F1CsMask(c), 339) >>
             \o (IF F1AllLow(c) THEN << >>
                 ELSE << F1Imm("CMP", F1CsPattern(c), 344) >>)
             \o << F1Jmp("BEQ", "wait_cs_high", 350) >>)

\* The pins go back to inputs; the plain build restarts the loop, the
\* logging build leaves the block with the byte.
F1Release(c) ==
       << F1Ins("IN_CRH_A", 378) >>
    \o (IF c.hw_rev = "C" THEN << >>
        ELSE << F1Ins("IN_CRL_C", 381), F1Ins("IN_CRH_C", 382) >>)
    \o (IF c.logging THEN << F1Ins("MOV_OUT", 393) >>
        ELSE << F1Jmp("B", "main_asm_loop", 389) >>)

F1Program(c) ==
       << F1Ins("LOAD_CONSTS", 127), F1Lbl("main_asm_loop", 158) >>
    \o F1WaitActive(c) \o F1Serve(c) \o F1WaitInactive(c) \o F1Release(c)

\* The block as assembled for the running build.
F1Prog == f1.prog

F1LabelIndex(name) ==
    CHOOSE i \in 1..Len(F1Prog) : F1Prog[i].op = "LABEL" /\ F1Prog[i].arg = name

RECURSIVE F1SkipLabels(_)
F1SkipLabels(i) ==
    IF i <= Len(F1Prog) /\ F1Prog[i].op = "LABEL" THEN F1SkipLabels(i + 1) ELSE i

F1At(ops) == f1.at = "asm" /\ f1.pc <= Len(F1Prog) /\ F1Prog[f1.pc].op \in ops
F1Cur == F1Prog[f1.pc]

\* The record after control has passed to position i of the block.
F1GoTo(r, i) ==
    LET j == F1SkipLabels(i)
    IN  [r EXCEPT !.pc = j, !.at = IF j <= Len(F1Prog) THEN "asm" ELSE "c_log"]

F1Next(r) == F1GoTo(r, f1.pc + 1)

\* Port C pins the host drives in these runs: the three chip-select lines.
F1CsValues == {MaskOf(S) : S \in SUBSET {10, 11, 12}}

\* Port B pins the host drives: PB0 (not an address line), PB2 and PB6.
F1AddrValues == {MaskOf(S) : S \in SUBSET {0, 2, 6}}

\* Byte idx of the RAM image.
F1TableByte(idx) == (idx * 37 + 11) % 256

\* Some data pin of record r is configured as an output.
F1AnyOut(r) == "out" \in {r.crh_a, r.crl_c, r.crh_c}

\* The flags are not defined when the block is entered.
F1LoopInit ==
    f1 \in {[at |-> "asm", cfg |-> c, prog |-> F1Program(c), pc |-> 1, r0 |-> 0, r2 |-> 0, r3 |-> 0, z |-> z,
             odr_a |-> 0, odr_c |-> 0,
             crh_a |-> "in", crl_c |-> "in", crh_c |-> "in",
             cs_sample |-> -1, z_fresh |-> FALSE, addr_sample |-> -1,
             addr_samples |-> 0] :
                c \in F1Builds, z \in BOOLEAN}

F1Rest == UNCHANGED <<loopVars, tst, msel, cfg, boot, exc>>

\* movw/movt of the port addresses and configuration words.
F1LoadConsts ==
    /\ F1At({"LOAD_CONSTS"})
    /\ f1' = F1Next(f1)
    /\ F1Rest

\* ldrh r0, [r6, idr]: the chip-select lines as the host drives them now.
F1SampleCs ==
    /\ F1At({"LDRH_CS"})
    /\ \E v \in F1CsValues :
          f1' = F1Next([f1 EXCEPT !.r0 = v, !.cs_sample = v, !.z_fresh = FALSE])
    /\ F1Rest

\* tst r0, #imm: Z is set when no bit of the mask is set in r0.
F1Tst ==
    /\ F1At({"TST"})
    /\ f1' = F1Next([f1 EXCEPT !.z = (BitAnd(f1.r0, F1Cur.imm) = 0),
                               !.z_fresh = TRUE])
    /\ F1Rest

\* and r0, r0, #imm: r0 is masked, the flags stay as they were.
F1And ==
    /\ F1At({"AND"})
    /\ f1' = F1Next([f1 EXCEPT !.r0 = BitAnd(f1.r0, F1Cur.imm)])
    /\ F1Rest

\* cmp r0, #imm: Z is set when r0 equals the immediate.
F1Cmp ==
    /\ F1At({"CMP"})
    /\ f1' = F1Next([f1 EXCEPT !.z = (f1.r0 = F1Cur.imm), !.z_fresh = TRUE])
    /\ F1Rest

\* beq, bne, b.
F1Branch ==
    /\ F1At({"BEQ", "BNE", "B"})
    /\ LET taken == CASE F1Cur.op = "BEQ" -> f1.z
                      [] F1Cur.op = "BNE" -> ~f1.z
                      [] OTHER -> TRUE
       IN  f1' = IF taken THEN F1GoTo(f1, F1LabelIndex(F1Cur.arg)) ELSE F1Next(f1)
    /\ F1Rest

\* ldrh r0, [r5, idr]: the address lines as the host drives them now.
F1SampleAddr ==
    /\ F1At({"LDRH_ADDR"})
    /\ \E v \in F1AddrValues :
          f1' = F1Next([f1 EXCEPT !.r0 = v, !.addr_sample = v,
                                  !.addr_samples = IF @ < 2 THEN @ + 1 ELSE @])
    /\ F1Rest

\* lsr r0, #2 and the shifts and masks that split the byte over the ports.
F1Alu ==
    /\ F1At({"LSR2", "LSL8", "AND_R2", "LSL6_R2", "AND_R0", "LSL4"})
    /\ f1' = F1Next(CASE F1Cur.op = "LSR2" -> [f1 EXCEPT !.r0 = f1.r0 \div 4]
                      [] F1Cur.op = "LSL8" -> [f1 EXCEPT !.r0 = f1.r3 * 256]
                      [] F1Cur.op = "AND_R2" -> [f1 EXCEPT !.r2 = BitAnd(f1.r3, F1Cur.imm)]
                      [] F1Cur.op = "LSL6_R2" -> [f1 EXCEPT !.r2 = f1.r2 * 64]
                      [] F1Cur.op = "AND_R0" -> [f1 EXCEPT !.r0 = BitAnd(f1.r3, F1Cur.imm)]
                      [] OTHER -> [f1 EXCEPT !.r0 = f1.r0 * 16])
    /\ F1Rest

\* ldrb r3, [r7, r0]
F1Lookup ==
    /\ F1At({"LDRB"})
    /\ f1' = F1Next([f1 EXCEPT !.r3 = F1TableByte(f1.r0)])
    /\ F1Rest

\* strh r0, [r4, odr] and strh r2, [r6, odr]
F1StoreOdr ==
    /\ F1At({"STRH_ODR_A", "STRH_ODR_C"})
    /\ f1' = F1Next(IF F1Cur.op = "STRH_ODR_A"
                    THEN [f1 EXCEPT !.odr_a = f1.r0 % Pow2(16)]
                    ELSE [f1 EXCEPT !.odr_c = f1.r2 % Pow2(16)])
    /\ F1Rest

\* str r8 / r9 / r10: the data pins of a configuration register become outputs.
F1SetOut ==
    /\ F1At({"OUT_CRH_A", "OUT_CRL_C", "OUT_CRH_C"})
    /\ f1' = F1Next(CASE F1Cur.op = "OUT_CRH_A" -> [f1 EXCEPT !.crh_a = "out"]
                      [] F1Cur.op = "OUT_CRL_C" -> [f1 EXCEPT !.crl_c = "out"]
                      [] OTHER -> [f1 EXCEPT !.crh_c = "out"])
    /\ F1Rest

\* str r11 / r12 / r1: the data pins of a configuration register become inputs.
F1SetIn ==
    /\ F1At({"IN_CRH_A", "IN_CRL_C", "IN_CRH_C"})
    /\ LET r == CASE F1Cur.op = "IN_CRH_A" -> [f1 EXCEPT !.crh_a = "in"]
                   [] F1Cur.op = "IN_CRL_C" -> [f1 EXCEPT !.crl_c = "in"]
                   [] OTHER -> [f1 EXCEPT !.crh_c = "in"]
       IN  f1' = F1Next(IF F1AnyOut(r) THEN r ELSE [r EXCEPT !.addr_samples = 0])
    /\ F1Rest

\* MAIN_LOOP_LOGGING: mov %0, r3 ends the block.
F1MovOut ==
    /\ F1At({"MOV_OUT"})
    /\ f1' = F1Next(f1)
    /\ F1Rest

\* MAIN_LOOP_LOGGING: the byte is logged and while (1) runs the block again;
\* the C code in between leaves the flags undefined.
F1LogAndRepeat ==
    /\ f1.at = "c_log"
    /\ \E z \in BOOLEAN : f1' = [f1 EXCEPT !.at = "asm", !.pc = 1, !.z = z,
                                           !.z_fresh = FALSE]
    /\ F1Rest

F1LoopStep ==
    \/ F1LoadConsts \/ F1SampleCs \/ F1Tst \/ F1And \/ F1Cmp \/ F1Branch
    \/ F1SampleAddr \/ F1Alu \/ F1Lookup \/ F1StoreOdr \/ F1SetOut \/ F1SetIn
    \/ F1MovOut \/ F1LogAndRepeat

F1LoopSpecInit ==
    /\ F1LoopInit
    /\ tst = TstIdle
    /\ LoopOff
    /\ msel = [at |-> "off"] /\ cfg = [at |-> "off"] /\ boot = [at |-> "off"]
    /\ exc = [at |-> "off"]

SpecLoopF1 == F1LoopSpecInit /\ [][F1LoopStep]_vars

-----------------------------------------------------------------------------
(* setup_sel_pins and get_sel_value (rp235x.c).  32-bit values are sets of *)
(* bit positions.                                                          *)

MAX_USED_GPIOS == 30
MAX_IMG_SEL_PINS == 4
INVALID_PIN == 255
Bits32 == 0..31

\* sdrr_info.pins->sel[] as configured: three pins, two pins, a pin that is
\* not a usable GPIO, no pins.
RpSelConfigs ==
    {<<25, 26, 27, INVALID_PIN>>, <<25, 26, INVALID_PIN, INVALID_PIN>>,
     <<25, 26, 27, MAX_USED_GPIOS>>,
     <<INVALID_PIN, INVALID_PIN, INVALID_PIN, INVALID_PIN>>}

\* sdrr_info.pins->sel_jumper_pull: 0, 1 and an invalid value.
RpPulls == {0, 1, 2}

\* Levels of SIO_GPIO_IN: the select pins and one other pin.
RpGpioIn == SUBSET {5, 25, 26, 27}

\* What the caller's sel_mask variable may hold before it is assigned.
RpUnassigned == {{}, {5, 25}}

\* A faulty variant that never inverts.
get_sel_value_NoInvert(pull, gpio_in, sel_mask) == gpio_in \cap sel_mask

\* get_sel_value: gpio_value = SIO_GPIO_IN & sel_mask, complemented over
\* all 32 bits when sel_jumper_pull is 0.
get_sel_value(pull, gpio_in, sel_mask) ==
    LET invert == IF pull = 0 THEN 1 ELSE 0
        gpio_value == gpio_in \cap sel_mask
    IN  IF invert # 0 THEN Bits32 \ gpio_value ELSE gpio_value

\* Either setup_sel_pins is about to be called with a sel_mask variable that
\* was never assigned, or get_sel_value is about to be called with a mask.
RpSelInit ==
    \/ boot \in {[at |-> "setup_sel_pins", pull |-> pl, sel |-> c, SIO_GPIO_IN |-> g,
                  sel_mask |-> m, assigned |-> FALSE, pad |-> "none", ii |-> 0, num |-> 0,
                  ret |-> -1, pads |-> [p \in {} |-> "none"], logs |-> 0, value |-> {}] :
                     pl \in RpPulls, c \in RpSelConfigs, g \in RpGpioIn,
                     m \in RpUnassigned}
    \/ boot \in {[at |-> "get_sel_value", pull |-> pl, sel |-> <<>>, SIO_GPIO_IN |-> g,
                  sel_mask |-> m, assigned |-> TRUE, pad |-> "none", ii |-> 0, num |-> 0,
                  ret |-> -1, pads |-> [p \in {} |-> "none"], logs |-> 0, value |-> {}] :
                     pl \in RpPulls, g \in RpGpioIn, m \in SUBSET {25, 26, 27}}

\* The test of sel_jumper_pull; *sel_mask = 0 and num = 0 follow it when the
\* value is valid, "return 0" when it is not.
SetupSelPull ==
    /\ boot.at = "setup_sel_pins"
    /\ boot' = IF boot.pull \in {0, 1}
               THEN [boot EXCEPT !.pad = IF boot.pull = 0 THEN "PAD_INPUT_PU"
                                                          ELSE "PAD_INPUT_PD",
                                 !.sel_mask = {}, !.assigned = TRUE, !.num = 0,
                                 !.ii = 0, !.at = "sel_loop"]
               ELSE [boot EXCEPT !.logs = @ + 1, !.ret = 0, !.at = "get_sel_value"]
    /\ BootRest

\* One pass of the for loop over sel[].
SetupSelPin ==
    /\ boot.at = "sel_loop"
    /\ boot.ii < MAX_IMG_SEL_PINS
    /\ LET pin == boot.sel[boot.ii + 1]
       IN  boot' = IF pin < MAX_USED_GPIOS
                   THEN [boot EXCEPT !.pads = (pin :> boot.pad) @@ @,
                                     !.sel_mask = @ \cup {pin},
                                     !.num = @ + 1, !.ii = @ + 1]
                   ELSE IF pin # INVALID_PIN
                   THEN [boot EXCEPT !.logs = @ + 1, !.ii = @ + 1]
                   ELSE [boot EXCEPT !.ii = @ + 1]
    /\ BootRest

\* The settle delay and "return num".
SetupSelReturn ==
    /\ boot.at = "sel_loop"
    /\ boot.ii >= MAX_IMG_SEL_PINS
    /\ boot' = [boot EXCEPT !.ret = boot.num, !.at = "get_sel_value"]
    /\ BootRest

\* The caller passes its sel_mask to get_sel_value.
GetSelValue ==
    /\ boot.at = "get_sel_value"
    /\ boot' = [boot EXCEPT !.value = get_sel_value(boot.pull, boot.SIO_GPIO_IN,
                                                    boot.sel_mask),
                            !.at = "sel_value_done"]
    /\ BootRest

RpSelStep == SetupSelPull \/ SetupSelPin \/ SetupSelReturn \/ GetSelValue

RpSelSpecInit ==
    /\ RpSelInit
    /\ tst = TstIdle
    /\ LoopOff
    /\ msel = [at |-> "off"]
    /\ cfg = [at |-> "off"]
    /\ MoreOff

SpecSelRp == RpSelSpecInit /\ [][RpSelStep]_vars

-----------------------------------------------------------------------------
(* set_flash_ws: the wait-state selection of utils.c and of stm32f4.c, the *)
(* latency field of reg-stm32f4.h and the poll loop.                       *)

F405 == "F405"
McuLines == {F401, F405, F411, F446}

\* Largest number of polls of a run that never reads the expected latency.
MaxPolls == 3

\* sdrr_info.freq (MHz): both sides of every threshold of the two chains.
FlashFreqs == {30 * k : k \in 1..15} \cup {30 * k + 1 : k \in 1..15}

\* FLASH_ACR_LATENCY_MASK: 0x07 when STM32F405 is defined, 0x0F otherwise.
LatencyMask(f405_build) == IF f405_build THEN 7 ELSE 15

\* FLASH_ACR_PRFTEN | FLASH_ACR_ICEN | FLASH_ACR_DCEN
FlashAcrCaches == Pow2(8) + Pow2(9) + Pow2(10)

\* utils.c: one wait state per 30MHz up to 8 at 270MHz; above that the
\* chain has no branch and wait_states stays 0.
WaitStatesUtils(freq, line) ==
    IF freq <= 30 THEN 0
    ELSE IF freq <= 270 THEN (freq + 29) \div 30 - 1
    ELSE 0

\* stm32f4.c: as above up to 6; 7 up to 240MHz or on the F405 line; then one
\* more per 30MHz up to 14 at 450MHz, and 15 above.
WaitStatesStm32f4(freq, line) ==
    IF freq <= 30 THEN 0
    ELSE IF freq <= 210 THEN (freq + 29) \div 30 - 1
    ELSE IF freq <= 240 \/ line = F405 THEN 7
    ELSE IF freq <= 450 THEN (freq + 29) \div 30 - 1
    ELSE 15

\* set_flash_ws is entered in a build of either file for a configured line
\* and frequency; STM32F405 is defined in the builds for the F405 line.
FlashWsInit ==
    boot \in {[at |-> "set_flash_ws", file |-> f, line |-> l, freq |-> fr,
               mask |-> LatencyMask(l = F405), FLASH_ACR |-> 0, wait_states |-> 0,
               polls |-> 0] :
                  f \in {"utils.c", "stm32f4.c"}, l \in McuLines, fr \in FlashFreqs}

\* The caches are enabled, the wait states chosen, the latency bits cleared
\* and set to wait_states & FLASH_ACR_LATENCY_MASK.
FlashWsWrite ==
    /\ boot.at = "set_flash_ws"
    /\ LET ws == IF boot.file = "utils.c" THEN WaitStatesUtils(boot.freq, boot.line)
                 ELSE WaitStatesStm32f4(boot.freq, boot.line)
           cleared == FlashAcrCaches - BitAnd(FlashAcrCaches, boot.mask)
       IN  boot' = [boot EXCEPT !.wait_states = ws,
                                !.FLASH_ACR = BitOr(cleared, BitAnd(ws, boot.mask)),
                                !.at = "flash_poll"]
    /\ BootRest

\* while ((FLASH_ACR & FLASH_ACR_LATENCY_MASK) != wait_states); the register
\* reads back what was written.
FlashWsPoll ==
    /\ boot.at = "flash_poll"
    /\ boot.polls < MaxPolls
    /\ boot' = IF BitAnd(boot.FLASH_ACR, boot.mask) # boot.wait_states
               THEN [boot EXCEPT !.polls = @ + 1]
               ELSE [boot EXCEPT !.polls = @ + 1, !.at = "flash_ws_done"]
    /\ BootRest

FlashWsStep == FlashWsWrite \/ FlashWsPoll

FlashWsSpecInit ==
    /\ FlashWsInit
    /\ tst = TstIdle
    /\ LoopOff
    /\ msel = [at |-> "off"]
    /\ cfg = [at |-> "off"]
    /\ MoreOff

SpecFlashWs == FlashWsSpecInit /\ [][FlashWsStep]_vars

-----------------------------------------------------------------------------
(* normalize_filename (json-config.c).  Strings are sequences of           *)
(* characters; the terminating byte is "NUL".                              *)

\* Longest hardware-revision string of the runs.
MaxRevLen == 3

RevChars == {"d", "_", "F", "2"}
RECURSIVE RevStrings(_)
RevStrings(n) ==
    IF n = 0 THEN {<< >>}
    ELSE RevStrings(n - 1)
         \cup {Append(w, c) : w \in {x \in RevStrings(n - 1) : Len(x) = n - 1},
                              c \in RevChars}

\* hw_rev: every string over the characters above, and the aliases "e", "f".
HwRevs == RevStrings(MaxRevLen) \cup {<<"e">>, <<"f">>}

\* tolower over the characters used.
tolower(c) == IF c = "F" THEN "f" ELSE c

\* A byte stored at offset k of an allocation of b.size bytes: inside it,
\* or past its end.
Store(b, k, ch) == IF k < b.size THEN [b EXCEPT !.mem[k] = ch]
                                 ELSE [b EXCEPT !.past = @ \cup {k}]

RECURSIVE StrCpyFrom(_, _, _, _)
\* strcpy(dest + off, str): the characters from the j-th on, then the NUL.
StrCpyFrom(b, off, str, j) ==
    IF j > Len(str) THEN Store(b, off + Len(str), "NUL")
    ELSE StrCpyFrom(Store(b, off + j - 1, str[j]), off, str, j + 1)

strcpy(b, off, str) == StrCpyFrom(b, off, str, 1)

NormInit ==
    boot \in {[at |-> "normalize_filename", hw_rev |-> h, len |-> 0, i |-> 0,
               normalized |-> [size |-> 0, mem |-> [k \in {} |-> "?"], past |-> {}]] :
                  h \in HwRevs}

\* len = strlen(hw_rev); normalized = malloc(len + 6); the three aliases
\* are answered with strcpy(normalized, "24-x.json") and a return.
NormStart ==
    /\ boot.at = "normalize_filename"
    /\ LET len == Len(boot.hw_rev)
           buf == [size |-> len + 6, mem |-> [k \in 0..(len + 5) |-> "?"], past |-> {}]
       IN  boot' = IF boot.hw_rev \in {<<"d">>, <<"e">>, <<"f">>}
                   THEN [boot EXCEPT
                           !.len = len,
                           !.normalized = strcpy(buf, 0, <<"2", "4", "-">> \o boot.hw_rev
                                                         \o <<".", "j", "s", "o", "n">>),
                           !.at = "normalize_returned"]
                   ELSE [boot EXCEPT !.len = len, !.normalized = buf, !.i = 0,
                                     !.at = "normalize_loop"]
    /\ BootRest

\* One pass of the for loop: '_' becomes '-', other characters tolower().
NormChar ==
    /\ boot.at = "normalize_loop"
    /\ boot.i < boot.len
    /\ LET c == boot.hw_rev[boot.i + 1]
       IN  boot' = [boot EXCEPT
                      !.normalized = Store(@, boot.i, IF c = "_" THEN "-" ELSE tolower(c)),
                      !.i = @ + 1]
    /\ BootRest

\* strcpy(normalized + len, ".json"); return normalized;
NormSuffix ==
    /\ boot.at = "normalize_loop"
    /\ boot.i >= boot.len
    /\ boot' = [boot EXCEPT
                  !.normalized = strcpy(@, boot.len, <<".", "j", "s", "o", "n">>),
                  !.at = "normalize_returned"]
    /\ BootRest

NormStep == NormStart \/ NormChar \/ NormSuffix

NormSpecInit ==
    /\ NormInit
    /\ tst = TstIdle
    /\ LoopOff
    /\ msel = [at |-> "off"]
    /\ cfg = [at |-> "off"]
    /\ MoreOff

SpecNormalize == NormSpecInit /\ [][NormStep]_vars

-----------------------------------------------------------------------------
(* Properties of the STM32F4 serve loop.                                   *)

\* The idle polling path: LOOP and its unrolled copy.
InIdlePath == phase = "asm" /\ Prog[pc].line \in (732..742) \cup (753..764)

\* The chip-select test of the loop applied to a register value.
CsActive(v) == TestCsZ(TestCsEor(v, cs_invert_mask), cs_check_mask)

\* C3: the data pins are outputs only from the mode write that follows a
\* chip-select test that found CS active up to the mode write that follows the
\* first later test that finds CS inactive, and never in the idle polling path.
C3_OutputsOnlyWhileServing ==
    /\ DataPinsOutput \/ DataPinsInput
    /\ DataPinsOutput =>
          \/ hist.sw = "SERVING" /\ hist.pending = "none"
          \/ hist.sw = "IDLE" /\ hist.pending = "in"
    /\ InIdlePath => DataPinsInput

C3_Witness ==
    /\ phase = "asm" /\ DataPinsOutput
    /\ hist.sw = "IDLE" /\ hist.pending = "in" /\ Prog[pc].op = "SET_DATA_IN"

\* C4: once a chip-select test has found a change of state (active while IDLE,
\* inactive while SERVING), nothing but the conditional branch on that test
\* runs before the matching mode write: no sample, lookup or store.
C4_ActsImmediately ==
    (phase = "asm" /\ hist.pending # "none") =>
        LET op == Prog[pc].op
            write == IF hist.pending = "out" THEN "SET_DATA_OUT" ELSE "SET_DATA_IN"
        IN  \/ hist.hops = 0 /\ op \in {"BEQ", "BNE"}
            \/ hist.hops <= 1 /\ op = write

C4_Witness ==
    /\ phase = "asm" /\ hist.pending = "in" /\ hist.hops = 1
    /\ Prog[pc].op = "SET_DATA_IN" /\ Prog[pc].line = 723 /\ zflag = FALSE

\* C5 as claimed: whenever the data pins are outputs, the output data register
\* holds table[r] for an r sampled with chip-select active in this assertion.
C5_Original ==
    DataPinsOutput =>
        /\ hist.odr_src = "cur"
        /\ GPIOA_ODR = RomData(rom, hist.odr_idx)

\* C5 amended: whenever the data pins are outputs and a data store has run
\* since they were switched to outputs, the output data register holds
\* table[r] for an r sampled with chip-select active in this assertion.
C5_DrivenByteIsCurrent ==
    (DataPinsOutput /\ hist.stored) =>
        /\ hist.odr_src = "cur"
        /\ CsActive(hist.odr_idx)
        /\ GPIOA_ODR = RomData(rom, hist.odr_idx)

C5_Witness ==
    /\ DataPinsOutput /\ hist.stored /\ hist.odr_src = "cur"
    /\ Bit(hist.odr_idx, 5) = 1 /\ GPIOA_ODR = RomData(rom, hist.odr_idx)

\* C6: while the address/CS register holds one value r with chip-select
\* active, the output data register holds table[r] from the second data store
\* after the first sample of r onward.
C6_OutputsTrackAddress ==
    (phase = "asm" /\ hist.run_val >= 0 /\ CsActive(hist.run_val)
        /\ hist.run_stores >= 2) =>
            GPIOA_ODR = RomData(rom, hist.run_val)

C6_Witness ==
    /\ phase = "asm" /\ hist.run_stores = MaxRunStores /\ CsActive(hist.run_val)
    /\ DataPinsOutput /\ Bit(hist.run_val, 5) = 1
    /\ GPIOA_ODR = RomData(rom, hist.run_val)

\* C7: without MAIN_LOOP_LOGGING control never leaves the assembly block:
\* main_loop does not return, so neither does main.
C7_NeverExits ==
    ~logging =>
        /\ phase \in {"entry", "asm"}
        /\ phase = "asm" => pc \in 1..Len(Prog)

C7_Witness ==
    /\ ~logging /\ phase = "asm" /\ Prog[pc].line = 764
    /\ hist.stored /\ DataPinsInput

-----------------------------------------------------------------------------
(* Properties of the chip-select masks.                                    *)

\* The chip-select lines of a ROM type: port C bit and configured polarity.
CsLines(r) ==
    IF r.rom_type = ROM_TYPE_2364
    THEN {[pin |-> 10, state |-> r.cs1_state]}
    ELSE IF r.rom_type = ROM_TYPE_2332
    THEN {[pin |-> 10, state |-> r.cs1_state], [pin |-> 9, state |-> r.cs2_state]}
    ELSE IF r.rom_type = ROM_TYPE_2316
    THEN {[pin |-> 10, state |-> r.cs1_state], [pin |-> 12, state |-> r.cs2_state],
          [pin |-> 9, state |-> r.cs3_state]}
    ELSE {}

\* The first chip-select test has run on the sampled register value.
FirstTestDone == phase = "asm" /\ Prog[pc].op = "BEQ" /\ Prog[pc].line = 734

AtActiveLevel(v, l) ==
    Bit(v, l.pin) = (IF l.state = CS_ACTIVE_HIGH THEN 1 ELSE 0)

\* C2: for a 2316, 2332 or 2364 whose chip-select lines are each active low
\* or active high, the test ((r XOR invert) AND check) = 0 succeeds exactly
\* when every chip-select line of the type is at its active level in r, and
\* register values that agree on those lines test alike.
C2_TestMatchesPolarity ==
    (/\ FirstTestDone
     /\ rom.rom_type \in {ROM_TYPE_2316, ROM_TYPE_2332, ROM_TYPE_2364}
     /\ \A l \in CsLines(rom) : l.state \in {CS_ACTIVE_LOW, CS_ACTIVE_HIGH}) =>
        /\ zflag = (BitAnd(BitXor(R_ADDR_CS, cs_invert_mask), cs_check_mask) = 0)
        /\ zflag = (\A l \in CsLines(rom) : AtActiveLevel(R_ADDR_CS, l))
        /\ \A v \in ProbeValues :
              (\A l \in CsLines(rom) : Bit(v, l.pin) = Bit(R_ADDR_CS, l.pin)) =>
                  CsActive(v) = zflag

C2_Witness ==
    /\ FirstTestDone /\ zflag
    /\ rom.rom_type = ROM_TYPE_2316
    /\ rom.cs1_state = CS_ACTIVE_LOW /\ rom.cs2_state = CS_ACTIVE_HIGH
    /\ rom.cs3_state = CS_ACTIVE_HIGH
    /\ R_ADDR_CS = MaskOf({0, 8, 9, 11, 12, 15})

\* C8 as claimed: for every polarity value of every line, the invert mask
\* holds a chip-select line's bit exactly when the line is in the check mask
\* and its polarity is active high.
C8_InvertIffActiveHigh ==
    (phase = "asm" /\ rom.rom_type # ROM_TYPE_UNKNOWN) =>
        \A pin \in 0..(IDR_BITS - 1) :
            (Bit(cs_invert_mask, pin) = 1) <=>
                \E l \in CsLines(rom) :
                    /\ l.pin = pin /\ Bit(cs_check_mask, pin) = 1
                    /\ l.state = CS_ACTIVE_HIGH

\* C9: an unknown rom_type gets exactly the masks of a 2364 with the same
\* CS1 polarity, and the serve loop runs with them: control is in the
\* assembly block or in the logging of the enclosing while (1), never back
\* in the caller.
C9_UnknownTypeAs2364 ==
    (rom.rom_type = ROM_TYPE_UNKNOWN /\ phase # "entry") =>
        /\ phase \in {"asm", "c_log"}
        /\ phase = "asm" => pc \in 1..Len(Prog)
        /\ cs_check_mask = Pow2(10)
        /\ cs_invert_mask = (IF rom.cs1_state = CS_ACTIVE_LOW THEN 0 ELSE Pow2(10))
        /\ cs_check_mask = MainLoopCheckMask([rom EXCEPT !.rom_type = ROM_TYPE_2364])
        /\ cs_invert_mask = MainLoopInvertMask([rom EXCEPT !.rom_type = ROM_TYPE_2364])

C9_Witness ==
    /\ rom.rom_type = ROM_TYPE_UNKNOWN /\ rom.cs1_state = CS_ACTIVE_HIGH
    /\ phase = "asm" /\ DataPinsOutput /\ hist.stored
    /\ R_ADDR_CS = MaskOf({5, 10}) /\ hist.odr_idx = R_ADDR_CS
    /\ GPIOA_ODR = RomData([rom EXCEPT !.rom_type = ROM_TYPE_2364], R_ADDR_CS)

-----------------------------------------------------------------------------
(* Properties of the table round trip.                                     *)

\* The ROM and the set the sweep is in.
SweepRom == loaded_roms[tst.overall_rom_idx + 1]
SweepSet == rom_set[tst.set_idx + 1]

-----------------------------------------------------------------------------
(* Properties of the multi-ROM selection test.                             *)

\* The select lines in the check mask of a set.
SelLines(set) == IF set.rom_count = 3 THEN {10, 14, 15} ELSE {10, 14}

\* No ROM of the set has a CS2 or CS3 requirement.
NoCs23(set) ==
    \A i \in 1..set.rom_count :
        set.configs[i].cs2 \in {-1, 2} /\ set.configs[i].cs3 \in {-1, 2}

\* C11: for a multi-ROM set the check mask is CS1 and X1, plus X2 only for
\* three ROMs; the invert mask is the check mask for an active-high select
\* polarity and empty otherwise; and a register value selects the set
\* exactly when at least one masked line is at its active level.  For
\* active-low sets the harness's find_responding_rom names a ROM only for
\* selected values, and for every selected value when no ROM has a CS2/CS3
\* requirement.
C11_MultiRomSelection ==
    (msel.at = "tested") =>
        LET set == msel.set
            high == set.multi_rom_cs1_state = CS_ACTIVE_HIGH
            act == IF high THEN 1 ELSE 0
        IN  /\ msel.check = MaskOf(SelLines(set))
            /\ msel.invert = (IF high THEN msel.check ELSE 0)
            /\ msel.selected = (\E pin \in SelLines(set) : Bit(msel.r, pin) = act)
            /\ msel.selected =
                   (BitAnd(BitXor(msel.r, msel.invert), msel.check) # msel.check)
            /\ (set.multi_rom_cs1_state = CS_ACTIVE_LOW) =>
                  /\ msel.responding # -1 => msel.selected
                  /\ NoCs23(set) => (msel.selected => msel.responding # -1)

C11_Witness ==
    /\ msel.at = "tested" /\ msel.set.rom_count = 2
    /\ msel.set.multi_rom_cs1_state = CS_ACTIVE_HIGH
    /\ msel.r = MaskOf({5, 14, 15}) /\ msel.selected

-----------------------------------------------------------------------------
(* Properties of check_config and the serve-mode repair.                   *)

\* C12: the serve mode in effect when serving starts is consistent with
\* rom_count: a single ROM with ADDR_ON_ANY_CS gets the single-ROM default,
\* several ROMs with any other mode get ADDR_ON_ANY_CS, a consistent mode is
\* kept; the configured mode itself is not touched, and serving is reached.
C12_ServeModeRepaired ==
    /\ (cfg.at = "serving") =>
          LET n == cfg.set.rom_count
              m == cfg.set.serve
          IN  /\ (n = 1 /\ m = SERVE_ADDR_ON_ANY_CS) => cfg.serve = SERVE_TWO_CS_ONE_ADDR
              /\ (n > 1 /\ m # SERVE_ADDR_ON_ANY_CS) => cfg.serve = SERVE_ADDR_ON_ANY_CS
              /\ ((n = 1) = (m # SERVE_ADDR_ON_ANY_CS)) => cfg.serve = m
              /\ (n > 1) = (cfg.serve = SERVE_ADDR_ON_ANY_CS)
              /\ cfg.set = cfg.set0
    /\ (cfg.at = "returned") => ENABLED CfgRepair

C12_Witness ==
    /\ cfg.at = "serving" /\ cfg.set.rom_count = 3
    /\ cfg.set.serve = SERVE_ADDR_ON_CS /\ cfg.serve = SERVE_ADDR_ON_ANY_CS

\* C13 as claimed: when check_config has returned, it has logged a serve-mode
\* warning exactly for the inconsistent combinations of rom_count and mode.
C13_WarnsEveryInconsistency ==
    (cfg.at = "returned") =>
        ((Msg("serve") \in cfg.log) <=>
            \/ cfg.set.rom_count = 1 /\ cfg.set.serve = SERVE_ADDR_ON_ANY_CS
            \/ cfg.set.rom_count > 1 /\ cfg.set.serve # SERVE_ADDR_ON_ANY_CS)

\* C14: check_config returns for every pin map and ROM set, whatever it
\* finds, and changes neither the pin map, the set (with its serve mode) nor
\* a hardware register; serving follows.
C14_OnlyLogs ==
    (cfg.at # "off") =>
        /\ cfg.pins = cfg.pins0 /\ cfg.set = cfg.set0 /\ cfg.regs = CfgRegs
        /\ cfg.at \in {"rom_pins", "ports", "addr", "data", "x_pins", "cs_pins",
                       "sel_pull", "serve", "returned", "serving"}
        /\ cfg.at # "serving" => ENABLED CfgStep

C14_Witness ==
    /\ cfg.at = "serving" /\ cfg.set.rom_count = 2
    /\ {Msg("rom_pins"), Msg("data_port"), Msg("addr_port"), Msg("cs_port"),
        Msg("sel_port"), <<"addr", 3>>, <<"addr", 12>>, <<"data", 0>>,
        <<"data", 7>>, Msg("x2"), Msg("x1=x2"), Msg("x_pull"), Msg("cs1_2364"),
        Msg("cs3_2316"), Msg("sel_pull")} \subseteq cfg.log
    /\ cfg.pins = cfg.pins0

-----------------------------------------------------------------------------
(* Properties of the boot path.                                            *)

\* The value on the image-select jumpers PB0, PB1, PB2 and PB7.
JumperValue ==
    Bit(boot.GPIOB_IDR, 0) + 2 * Bit(boot.GPIOB_IDR, 1)
    + 4 * Bit(boot.GPIOB_IDR, 2) + 8 * Bit(boot.GPIOB_IDR, 7)

AfterSelection == {"preload", "table_size", "mco_led", "call_main_loop", "main_loop"}
DuringCheck == {"check_sel_pins", "sel_masks", "sel_read", "sel_return", "check_enter"}
Jumping == {"enter_bootloader", "bootloader"}
NormalBoot == {"system_init", "pll", "overdrive", "bus_clks", "flash_ws", "set_clock",
               "gpio_init", "get_rom_index"} \cup AfterSelection

ConfiguredSelPins ==
    IF boot.at # "off" /\ boot.info.sel_port = PORT_B
    THEN {boot.info.sel[k] : k \in 1..4} \cap (0..15)
    ELSE {}

BootloaderRequested ==
    /\ boot.info.bootloader_capable
    /\ ConfiguredSelPins # {}
    /\ \A p \in ConfiguredSelPins : Bit(boot.GPIOB_IDR, p) = 1

\* C16: the firmware jumps to the bootloader exactly when it is
\* bootloader-capable, the select-pin mask is non-zero and every configured
\* select pin reads high; otherwise it goes on to normal initialisation.
C16_BootloaderIffAllHigh ==
    /\ boot.at \in Jumping => BootloaderRequested
    /\ boot.at \in NormalBoot => ~BootloaderRequested

\* The bootloader is entered with two select pins configured, both high.
C16_Witness ==
    /\ boot.at = "bootloader"
    /\ boot.info.sel = <<0, 1, 255, 255>>
    /\ boot.sel_pins = 3

\* C17: no clock-tree register (power scale, PLL, bus prescalers, flash
\* wait states, system clock switch) is written before the bootloader check
\* and jump, and the GPIOB clock enabled for the check is off again before
\* the jump.
C17_CheckBeforeClocks ==
    /\ boot.at \in {"main"} \cup DuringCheck \cup Jumping => boot.clock_writes = {}
    /\ boot.at \in Jumping => ~boot.gpiob_clk

\* The bootloader is entered after the GPIOB clock was enabled for the check.
C17_Witness ==
    /\ boot.at = "bootloader"
    /\ boot.clk_enabled_for_check
    /\ ~boot.gpiob_clk

\* C18: wherever main_loop is reached, a set has been selected, every byte
\* of its table has been copied to RAM when preload is configured, and
\* rom_table is not NULL.
C18_TableCompleteBeforeServing ==
    boot.at = "main_loop" =>
        /\ boot.rom_set_index < SDRR_NUM_IMAGES
        /\ boot.rom_table # NULL
        /\ boot.info.preload_image_to_ram =>
              /\ boot.ram.from = boot.rom_set_index
              /\ boot.ram.copied = SetTableSize(BootSet)

CopyProbes(size) == {0, 1, 8191, 16383, size - 1}

\* C20: the STM32F4 preload copies as many bytes as the table's size, and
\* every byte of the RAM image equals the byte at the same offset of the
\* source table, for 16384-byte and 65536-byte tables.
C20_PreloadCopiesWholeTable ==
    (boot.at = "table_size" /\ boot.info.preload_image_to_ram) =>
        /\ boot.rom_size = SetTableSize(BootSet)
        /\ \A i \in CopyProbes(SetTableSize(BootSet)) :
               RamHolds(i, SetTableByte(BootSet, i))

-----------------------------------------------------------------------------
(* Properties of the STM32F1 preload.                                      *)

\* C21: after the STM32F1 preload the RAM table holds every source byte at
\* both values of the skipped index bit 3: for every i < rom_size and b in
\* {0, 1}, table[(i & 7) | (b << 3) | ((i & ~7) << 1)] = src[i].
C21_SkippedBitDuplicated ==
    boot.at = "f1_done" =>
        \A i \in 0..(boot.rom_size - 1) : \A b \in {0, 1} :
            boot.ram[(i % 8) + b * 8 + (i - (i % 8)) * 2] = F1SrcByte(i)

-----------------------------------------------------------------------------
(* Properties of the firmware from reset into the serve loop.              *)

\* The fields of sdrr_runtime_info that describe the table being served.
RuntimeTableFields == <<boot.rom_set_index, boot.rom_table, boot.rom_table_size>>

\* C22: RuntimeInfo is written only at boot: magic and runtime_info_size
\* never change after reset, and rom_set_index, rom_table and
\* rom_table_size change in no step taken once main_loop has started, the
\* steps of the serve loop included.
C22_RuntimeInfoWrittenAtBoot ==
    [][/\ boot'.magic = boot.magic
       /\ boot'.runtime_info_size = boot.runtime_info_size
       /\ (boot.at = "main_loop" \/ phase # "off") =>
              RuntimeTableFields' = RuntimeTableFields]_vars

\* The loop is serving, with the table fields as main stored them.
C22_Witness ==
    /\ phase = "asm"
    /\ hist.sw = "SERVING"
    /\ boot.magic = "sdrr"
    /\ boot.rom_set_index = 1
    /\ boot.rom_table = FlashData(1)
    /\ boot.rom_table_size = 16384

-----------------------------------------------------------------------------
(* Properties of the exception handlers.                                   *)

\* C23: once entered, every exception handler (NMI, HardFault, BusFault,
\* UsageFault and the default handler) stays in its blink loop and never
\* returns to the interrupted serve loop, with or without a status LED.
C23_HandlersNeverReturn == exc.at # "returned"

-----------------------------------------------------------------------------
(* Further properties of the STM32F4 serve loop.                           *)

\* The next instruction is op and the loop has been serving without a break
\* since the chip-select test that entered SERVING.
ServingAt(op) == AtOp(op) /\ hist.sw = "SERVING"

\* C24: while SERVING, chip-select is sampled and tested after every table
\* lookup and after every data store: exactly two sample-and-test pairs lie
\* between consecutive lookups, and no looked-up byte is stored without a
\* test on a fresh sample in between.
C24_TestsBetweenLookups ==
    /\ (ServingAt("LOAD_FROM_RAM") /\ hist.lk_serving) => hist.lk_pairs = 2
    /\ (ServingAt("STORE_TO_DATA") /\ hist.lk_serving) => hist.lk_pairs >= 1
    /\ ((ServingAt("LOAD_FROM_RAM") \/ ServingAt("STORE_TO_DATA")) /\ hist.st_serving)
           => hist.st_pairs >= 1

\* The second lookup of the serve block is about to run, two tests after
\* the first and one test after the store.
C24_Witness ==
    /\ ServingAt("LOAD_FROM_RAM")
    /\ Prog[pc].line = 698
    /\ hist.lk_serving /\ hist.lk_pairs = 2
    /\ hist.st_serving /\ hist.st_pairs = 1

\* C25: the data-pin mode writes of the loop strictly alternate, starting
\* from inputs at loop entry: the output encoding is written only while the
\* pins are inputs, and the input encoding only while they are outputs.
C25_ModeWritesAlternate ==
    /\ phase = "asm" => DataPinsInput \/ DataPinsOutput
    /\ AtOp("SET_DATA_OUT") => DataPinsInput
    /\ AtOp("SET_DATA_IN") => DataPinsOutput

\* The pins are about to be released a second time or later: an earlier
\* serving period has already ended with a store on released pins.
C25_Witness ==
    /\ AtOp("SET_DATA_IN")
    /\ DataPinsOutput
    /\ hist.odr_src = "old"

\* C26: every table lookup of the loop, in IDLE and in SERVING, uses as its
\* index the complete value last read from the address/CS register,
\* chip-select bits included, and the index is below 16384 whenever pins 14
\* and 15 read 0.
C26_LookupUsesRawRegister ==
    hist.r1_idx # -1 =>
        /\ hist.r1_idx = hist.lk_read
        /\ (Bit(hist.lk_read, PIN_X1) = 0 /\ Bit(hist.lk_read, PIN_X2) = 0)
               => hist.r1_idx < 16384

\* A lookup in IDLE whose index carries the chip-select bit: CS1 is active
\* low, so the bit is set while the chip is not selected.
C26_Witness ==
    /\ hist.r1_idx = MaskOf({5, PIN_CS_INT, 13})
    /\ hist.r1_src = "inactive"
    /\ hist.lk_read = hist.r1_idx

-----------------------------------------------------------------------------
(* Further properties of the firmware from reset into the serve loop.      *)

\* C27: from reset until the first chip-select test of the serve loop that
\* finds CS active the data pins are never outputs: gpio_init leaves them
\* inputs, the prologue of main_loop keeps them inputs, and the loop is
\* entered on the idle polling path.
C27_InputsUntilFirstActive ==
    ~hist.seen_active =>
        /\ boot.GPIOA_MODER % Pow2(16) = 0
        /\ phase # "off" => DataPinsInput
        /\ phase = "asm" => Prog[pc].line \in {659, 679} \/ InIdlePath

\* The loop is polling with the pins as inputs, has stored a byte to the
\* output register and has not yet seen CS active.
C27_Witness ==
    /\ ~hist.seen_active
    /\ InIdlePath
    /\ hist.stored
    /\ DataPinsInput
    /\ boot.at = "main_loop"
    /\ boot.info.bootloader_capable

\* Mode fields of PA8-PA15 in a value of GPIOA_MODER.
OtherPinModes(m) == m \div Pow2(16)

\* C28: the mode writes of the serve loop change only the mode fields of
\* PA0-PA7: in the loop the modes of PA8-PA15 are those gpio_init
\* configured, for every setting of swd_enabled and mco_enabled.
C28_ModeWritesKeepOtherPins ==
    phase = "asm" =>
        OtherPinModes(GPIOA_MODER) =
            OtherPinModes(GpioInitModer(boot.info.swd_enabled, boot.info.mco_enabled))

-----------------------------------------------------------------------------
(* Properties of the STM32F1 serve loop.                                   *)

\* The chip-select lines of the build are all at their active level in v.
F1CsActive(v) == BitAnd(v, F1CsMask(f1.cfg)) = F1CsPattern(f1.cfg)

\* The next instruction is the branch that closes wait_cs_high.
F1AtWaitBranch == F1At({"BEQ", "BNE"}) /\ F1Cur.arg = "wait_cs_high"

\* The branch about to run is taken.
F1Taken == IF F1Cur.op = "BEQ" THEN f1.z ELSE ~f1.z

\* C29: in the STM32F1 loop, for every ROM type and polarity combination,
\* the branch that keeps the loop in wait_cs_high is decided by the
\* chip-select bits sampled in the same iteration: it is taken exactly when
\* that sample shows chip-select active, so a sample that finds it inactive
\* leads to the pins being released.
C29_WaitBranchUsesFreshSample ==
    F1AtWaitBranch =>
        /\ f1.z_fresh
        /\ F1Taken <=> F1CsActive(f1.cs_sample)

\* The byte of the RAM image at the address last sampled.
F1SampledByte == F1TableByte(f1.addr_sample \div 4)

-----------------------------------------------------------------------------
(* Properties of the STM32F1 preload mapping.                              *)

\* C31: the STM32F1 preload writes source byte i at RAM offset
\* (i & 7) | ((i & ~7) << 1).  Over the offsets of an 8KB image the mapping
\* is strictly increasing (so injective), has bit 3 clear and stays below
\* 16384; and when the copy has ended the RAM holds src[i] at
\* (i & 7) | ((i & ~7) << 1) for every i < rom_size.
C31_PreloadMapping ==
    boot.at = "f1_done" =>
        /\ \A i \in 0..(get_expected_rom_size(ROM_TYPE_2364) - 1) :
              /\ Bit(F1DstOffset(i), 3) = 0
              /\ F1DstOffset(i) < 16384
              /\ i > 0 => F1DstOffset(i - 1) < F1DstOffset(i)
        /\ \A i \in 0..(boot.rom_size - 1) :
              boot.ram[(i % 8) + (i - (i % 8)) * 2] = F1SrcByte(i)

\* A copy of more than sixteen bytes has ended: offsets were shifted past
\* two skipped groups.
C31_Witness ==
    /\ boot.at = "f1_done"
    /\ boot.rom_size > 16
    /\ boot.ram[F1DstOffset(16)] = F1SrcByte(16)

-----------------------------------------------------------------------------
(* Properties of check_sel_pins (STM32F4).                                 *)

\* The 2-bit field of pin p in a mode or pull register given as a bit set.
Field2(reg, p) == {b - 2 * p : b \in reg \cap {2 * p, 2 * p + 1}}

\* check_sel_pins has returned to check_enter_bootloader.
CheckReturned == boot.at = "check_enter"

\* C32: check_sel_pins returns with *sel_mask holding exactly the bits of
\* the configured select pins numbered 0..15; each of those pins is an
\* input (mode 00) with pull-down (pull 10) when the port is read; and the
\* value returned has no bit outside *sel_mask.
C32_SelMaskAndPulls ==
    /\ boot.at = "sel_read" =>
          /\ boot.gpiob_clk
          /\ \A p \in ConfiguredSelPins :
                Field2(boot.GPIOB_MODER, p) = {} /\ Field2(boot.GPIOB_PUPDR, p) = {1}
    /\ (CheckReturned /\ boot.info.sel_port = PORT_B) =>
          /\ boot.sel_mask = MaskOf(ConfiguredSelPins)
          /\ \A b \in 0..30 : Bit(boot.sel_pins, b) = 1 => Bit(boot.sel_mask, b) = 1

\* Three pins are usable and one is skipped; a high pin outside the mask
\* is not returned.
C32_Witness ==
    /\ CheckReturned
    /\ boot.info.sel = <<0, 1, 2, 16>>
    /\ boot.GPIOB_IDR = 133
    /\ boot.sel_mask = 7
    /\ boot.sel_pins = 5

\* C33: check_sel_pins changes the mode and pull fields of the configured
\* select pins only: every other port-B pin has the mode field and the pull
\* field it had before the call.
C33_OtherPinsUntouched ==
    boot.at \in {"sel_read", "sel_return", "check_enter"} =>
        \A q \in (0..15) \ ConfiguredSelPins :
            /\ Field2(boot.GPIOB_MODER, q) = Field2(BootReset(1, boot.info, 0).GPIOB_MODER, q)
            /\ Field2(boot.GPIOB_PUPDR, q) = Field2(BootReset(1, boot.info, 0).GPIOB_PUPDR, q)

\* C34: when the select port is not port B, check_sel_pins sets *sel_mask
\* to 0, returns 0 and writes no register (GPIOB clock enable, port-B mode
\* and pull registers), and the bootloader is never entered.
C34_NotPortB ==
    (boot.at # "off" /\ boot.at # "f1_copy" /\ boot.at # "f1_done"
     /\ boot.info.sel_port # PORT_B) =>
        /\ boot.at \notin Jumping
        /\ CheckReturned =>
              /\ boot.sel_mask = 0 /\ boot.sel_pins = 0
              /\ ~boot.gpiob_clk /\ ~boot.clk_enabled_for_check
              /\ boot.GPIOB_MODER = BootReset(1, boot.info, 0).GPIOB_MODER
              /\ boot.GPIOB_PUPDR = BootReset(1, boot.info, 0).GPIOB_PUPDR

\* A bootloader-capable build with the select pins on port C and every
\* jumper pin high has gone on to normal initialisation.
C34_Witness ==
    /\ boot.at = "system_init"
    /\ boot.info.bootloader_capable
    /\ boot.info.sel_port = PORT_C
    /\ boot.GPIOB_IDR = MaskOf(JumperPins)

-----------------------------------------------------------------------------
(* Properties of the RP235X select pins.                                   *)

\* The jumper on pin p is closed: it pulls the pin low when sel_jumper_pull
\* is 0 and high when it is 1.
JumperClosed(p) == IF boot.pull = 0 THEN p \notin boot.SIO_GPIO_IN
                                    ELSE p \in boot.SIO_GPIO_IN

\* C35: get_sel_value reports a closed jumper as 1 in both pull
\* configurations: for every pin p of sel_mask, bit p of the result is 1
\* exactly when the jumper on p is closed.
C35_ClosedJumperIsOne ==
    (boot.at = "sel_value_done" /\ boot.pull \in {0, 1}) =>
        \A p \in boot.sel_mask : p \in boot.value <=> JumperClosed(p)

\* Pull-up board, three select pins set up, the jumpers on 25 and 27 closed.
C35_Witness ==
    /\ boot.at = "sel_value_done"
    /\ boot.pull = 0
    /\ boot.ret = 3
    /\ boot.sel_mask = {25, 26, 27}
    /\ boot.SIO_GPIO_IN = {5, 26}
    /\ {25, 27} \subseteq boot.value /\ 26 \notin boot.value

\* C36: every bit of get_sel_value's result outside sel_mask is 0, in both
\* pull configurations and for every value of the GPIO input register.
C36_ResultInsideMask ==
    boot.at = "sel_value_done" => boot.value \subseteq boot.sel_mask

\* Number of bits set in a 32-bit value.
PopCount(m) == Cardinality(m)

\* C37: setup_sel_pins always assigns *sel_mask and returns the number of
\* bits set in it; an invalid sel_jumper_pull gives a return of 0 with an
\* empty mask and no pad written.
C37_SetupAssignsMask ==
    (boot.at = "get_sel_value" /\ boot.ret >= 0) =>
        /\ boot.assigned
        /\ boot.ret = PopCount(boot.sel_mask)
        /\ boot.pull \notin {0, 1} =>
              boot.ret = 0 /\ boot.sel_mask = {} /\ DOMAIN boot.pads = {}

-----------------------------------------------------------------------------
(* Properties of set_flash_ws.                                             *)

\* C38: for every configured frequency and MCU line the number of wait
\* states set_flash_ws selects fits in the latency field it is masked with,
\* so the value it polls for equals the value it programmed and the first
\* poll ends the loop.
C38_WaitStatesFit ==
    /\ boot.at = "flash_poll" =>
          /\ BitAnd(boot.wait_states, boot.mask) = boot.wait_states
          /\ boot.polls = 0
    /\ boot.at = "flash_ws_done" => boot.polls = 1

-----------------------------------------------------------------------------
(* Properties of create_mangled_address.                                   *)

\* The index bit that address line k alone sets, and those of the selects.
AddrImage(k) == create_mangled_address(Pow2(k), 0, 0, 0)
AddrImages == {AddrImage(k) : k \in 0..12}
SelectImages == {create_mangled_address(0, 1, 0, 0), create_mangled_address(0, 0, 1, 0),
                 create_mangled_address(0, 0, 0, 1)}

\* C39: create_mangled_address is a bijection from (13-bit logical address,
\* cs1, x1, x2) onto the 16-bit table indices: the 13 address bits and the
\* three select bits land on 16 pairwise distinct bit positions, no address
\* bit lands on bit 10, 14 or 15, and every input bit can be read back from
\* its own position of the index, so two different logical addresses never
\* share an index for a fixed select state.
C39_MangleIsBijection ==
    /\ Cardinality(AddrImages) = 13
    /\ SelectImages = {Pow2(10), Pow2(14), Pow2(15)}
    /\ AddrImages \cap SelectImages = {}
    /\ AddrImages \cup SelectImages = {Pow2(b) : b \in 0..15}
    /\ (tst.at \in {"single", "multi"} /\ tst.logical_addr > 0) =>
          LET a == tst.logical_addr - 1
              m == tst.mangled_addr
          IN  /\ m \in 0..(Pow2(16) - 1)
              /\ \A k \in 0..12 : BitAnd(m, AddrImage(k)) = Bit(a, k) * AddrImage(k)
              /\ tst.at = "multi" =>
                    /\ Bit(m, 10) = tst.cs1
                    /\ Bit(m, 14) = tst.x1
                    /\ Bit(m, 15) = tst.x2

\* The sweep of a ROM selected by X2 has mangled an address with A12 set.
C39_Witness ==
    /\ tst.at = "multi"
    /\ tst.x2 = 1 /\ tst.cs1 = 0 /\ tst.x1 = 0
    /\ tst.logical_addr > 0
    /\ Bit(tst.logical_addr - 1, 10) = 1
    /\ Bit(tst.mangled_addr, 15) = 1 /\ Bit(tst.mangled_addr, 11) = 1

-----------------------------------------------------------------------------
(* Properties of normalize_filename.                                       *)

\* C40: normalize_filename never writes past the strlen(hw_rev) + 6 bytes
\* it allocates, for every hardware-revision string, the aliases "d", "e"
\* and "f" included.
C40_WritesInsideBuffer ==
    boot.at \in {"normalize_loop", "normalize_returned"} =>
        /\ boot.normalized.size = Len(boot.hw_rev) + 6
        /\ boot.normalized.past = {}

====
